---- MODULE Spec2Model ----
(***************************************************************************)
(* Model of the DPA margin simulator / log analyzer                        *)
(* (reference_models/tools/studies/dpa_margin_sim.py).                     *)
(*                                                                         *)
(* Python lists are TLA+ sequences; a Python index i is position i + 1.    *)
(* A move list is a list with one set of grants per channel.  A run        *)
(* collection is a list of move lists.  Strings that the code inspects     *)
(* (the method names) are sequences of one-character strings.              *)
(***************************************************************************)
EXTENDS Integers, Sequences, FiniteSets, TLC

VARIABLES
  \* --- SyntheticMoveList called on its own (SpecSynth)
  ml_list,      \* the run collection passed in
  method,       \* the method string
  num,          \* the window size argument
  chan_idx,     \* the channel index argument
  ref_ml,       \* outcome of the call: "none" before the call, then a record
  \* --- ExtensiveInterferenceCheck (SpecExt)
  heap,         \* the list objects holding move lists: object id -> its content
  ext,          \* the frame of the running ExtensiveInterferenceCheck call
  dpa,          \* the Dpa object: its move_lists field and the calls made on it
  \* --- ScatterAnalyze (SpecScatter)
  sc,           \* inputs and outcome of one ScatterAnalyze call
  \* --- DpaSimulate / DpaAnalyzeLogs (Spec)
  sim,          \* the frame of the running main program, with its heap
  np_random,    \* the state of np.random, and what the generator drew from it
  \* --- database.py (SpecDb)
  db            \* the DatabaseServer, its thread and the request being handled

vars ==
  <<ml_list, method, num, chan_idx, ref_ml, heap, ext, dpa, sc, sim, np_random, db>>

-----------------------------------------------------------------------------
(* Bounds of the model *)

MaxRuns == 3            \* longest run collection drawn in SpecSynth
MaxSamples == 2         \* longest sample list drawn in SpecScatter
MaxRefRuns == 3         \* longest reference run collection drawn in SpecExt
MaxNumMl == 2           \* largest --num_ml, --ref_ml_num and --uut_ml_num in Spec
LargeNumMl == 24        \* a large --num_ml, for executions that generate no run
MaxServeForever == 2    \* most calls of serve_forever in SpecDb
MaxRequests == 1        \* most requests handled in SpecDb
MaxSets == 2            \* most replacements of the url mapping in SpecDb

\* the grants that can be on each channel (channel index 0, then 1)
GrantsOnChannel == <<{"g1", "g2"}, {"g3"}>>
Grants == UNION {GrantsOnChannel[c] : c \in 1 .. Len(GrantsOnChannel)}
NumChannels == Len(GrantsOnChannel)
Channels == 0 .. (NumChannels - 1)

\* every move list: one set of grants per channel
MoveLists ==
  {ml \in [1 .. NumChannels -> SUBSET Grants] :
     \A c \in 1 .. NumChannels : ml[c] \subseteq GrantsOnChannel[c]}

\* run collections of length 0 .. n
RunCollections(n) == UNION {[1 .. len -> MoveLists] : len \in 0 .. n}

-----------------------------------------------------------------------------
(* Python helpers *)

Str(s) == s    \* a string is given as its sequence of characters

StartsWith(s, prefix) ==
  /\ Len(s) >= Len(prefix)
  /\ SubSeq(s, 1, Len(prefix)) = prefix

\* s[:n] for n >= 0
Prefix(s, n) == SubSeq(s, 1, IF n < Len(s) THEN n ELSE Len(s))

\* s[k:] for k >= 0
Suffix(s, k) == SubSeq(s, k + 1, Len(s))

Min2(a, b) == IF a <= b THEN a ELSE b
Max2(a, b) == IF a >= b THEN a ELSE b

\* list.index(v): the first Python index holding v, or -1 when v is absent
\* (Python raises ValueError there)
ListIndex(s, v) ==
  IF \E i \in 1 .. Len(s) : s[i] = v
  THEN (CHOOSE i \in 1 .. Len(s) : s[i] = v /\ \A j \in 1 .. (i - 1) : s[j] # v) - 1
  ELSE -1

\* np.argmax / np.argmin: the first Python index of the largest / smallest entry
ArgMax(s) ==
  (CHOOSE i \in 1 .. Len(s) :
     /\ \A j \in 1 .. Len(s) : s[j] <= s[i]
     /\ \A j \in 1 .. (i - 1) : s[j] < s[i]) - 1

ArgMin(s) ==
  (CHOOSE i \in 1 .. Len(s) :
     /\ \A j \in 1 .. Len(s) : s[j] >= s[i]
     /\ \A j \in 1 .. (i - 1) : s[j] > s[i]) - 1

\* insertion of v into an ascending sequence
RECURSIVE Insert(_, _)
Insert(s, v) ==
  IF s = <<>> THEN <<v>>
  ELSE IF v <= Head(s) THEN <<v>> \o s
  ELSE <<Head(s)>> \o Insert(Tail(s), v)

RECURSIVE Sort(_)
Sort(s) == IF s = <<>> THEN <<>> ELSE Insert(Sort(Tail(s)), Head(s))

\* np.around on h + 1/2 (round half to even), h an integer
AroundHalf(h) == IF h % 2 = 0 THEN h ELSE h + 1

\* np.percentile(a, 50, interpolation='nearest') for a non-empty a:
\* the entry of the sorted array at index around(0.5 * (n - 1))
Percentile50Nearest(a) ==
  LET n == Len(a)
      idx == IF (n - 1) % 2 = 0 THEN (n - 1) \div 2
             ELSE AroundHalf((n - 1) \div 2)
  IN  Sort(a)[idx + 1]

\* '...%d...' % arg: formats a number, raises TypeError for anything else
PercentD(argtype) ==
  IF argtype \in {"int", "float", "bool"} THEN "formatted" ELSE "TypeError"

\* int(text) for a text of decimal digits; -1 when int() raises ValueError
Digits == <<"0", "1", "2", "3", "4", "5", "6", "7", "8", "9">>
DigitValue(c) == ListIndex(Digits, c)
RECURSIVE ParseInt(_, _)
ParseInt(text, acc) ==
  IF text = <<>> THEN acc
  ELSE IF DigitValue(Head(text)) < 0 THEN -1
  ELSE ParseInt(Tail(text), 10 * acc + DigitValue(Head(text)))
IntOf(text) == IF text = <<>> THEN -1 ELSE ParseInt(text, 0)

-----------------------------------------------------------------------------
(* SyntheticMoveList *)

NotCalled == [kind |-> "none", idx |-> -1, value |-> <<>>, exc |-> "none"]
Returned(kind, idx, value) ==
  [kind |-> kind, idx |-> idx, value |-> value, exc |-> "none"]
Raised(exc) ==
  [kind |-> "raise", idx |-> -1, value |-> <<>>, exc |-> exc]

\* ml_size = [len(ml[chan_idx]) for ml in ml_list]
MlSize(mls, c) == [i \in 1 .. Len(mls) |-> Cardinality(mls[i][c + 1])]

\* (mutant) the median taken over every run, not over the first n
SynthMedianNoWindow(mls, n, c) ==
  IF MlSize(mls, c) = <<>> THEN Raised("ValueError")
  ELSE LET median_idx ==
             ListIndex(MlSize(mls, c), Percentile50Nearest(MlSize(mls, c)))
       IN  Returned("run", median_idx, mls[median_idx + 1])

\* the median branch
SynthMedian(mls, n, c) ==
  IF Prefix(MlSize(mls, c), n) = <<>> THEN Raised("ValueError")
  ELSE LET median_idx ==
             ListIndex(MlSize(mls, c), Percentile50Nearest(Prefix(MlSize(mls, c), n)))
       IN  Returned("run", median_idx, mls[median_idx + 1])

\* (mutant) the largest run taken over every run, not over the first n
SynthMaxNoWindow(mls, n, c) ==
  IF MlSize(mls, c) = <<>> THEN Raised("ValueError")
  ELSE LET max_idx == ArgMax(MlSize(mls, c))
       IN  Returned("run", max_idx, mls[max_idx + 1])

\* the max branch
SynthMax(mls, n, c) ==
  IF Prefix(MlSize(mls, c), n) = <<>> THEN Raised("ValueError")
  ELSE LET max_idx == ArgMax(Prefix(MlSize(mls, c), n))
       IN  Returned("run", max_idx, mls[max_idx + 1])

\* (mutant) np.argmax left in the min branch
SynthMinArgMax(mls, n, c) ==
  IF Prefix(MlSize(mls, c), n) = <<>> THEN Raised("ValueError")
  ELSE LET min_idx == ArgMax(Prefix(MlSize(mls, c), n))
       IN  Returned("run", min_idx, mls[min_idx + 1])

\* (mutant) the sizes read on channel 0 whatever chan_idx is
SynthMinChannel0(mls, n, c) ==
  IF Prefix(MlSize(mls, 0), n) = <<>> THEN Raised("ValueError")
  ELSE LET min_idx == ArgMin(Prefix(MlSize(mls, 0), n))
       IN  Returned("run", min_idx, mls[min_idx + 1])

\* the min branch
SynthMin(mls, n, c) ==
  IF Prefix(MlSize(mls, c), n) = <<>> THEN Raised("ValueError")
  ELSE LET min_idx == ArgMin(Prefix(MlSize(mls, c), n))
       IN  Returned("run", min_idx, mls[min_idx + 1])

\* (mutant) range(num - 1): the last run of the window left out
RECURSIVE IntersectRunsShort(_, _, _)
IntersectRunsShort(mls, n, chan) ==
  IF n <= 2 THEN mls[1][chan]
  ELSE IntersectRunsShort(mls, n - 1, chan) \cap mls[n - 1][chan]

\* set.intersection(*[ml_list[k][chan] for k in range(num)]) for num >= 1
RECURSIVE IntersectRuns(_, _, _)
IntersectRuns(mls, n, chan) ==
  IF n = 1 THEN mls[1][chan]
  ELSE IntersectRuns(mls, n - 1, chan) \cap mls[n][chan]

\* the intersection branch: ml_list[0] and ml_list[k] raise IndexError out of
\* range; set.intersection() of no set at all raises TypeError
SynthInter(mls, n, c) ==
  IF Len(mls) = 0 \/ n > Len(mls) THEN Raised("IndexError")
  ELSE IF n = 0 THEN Raised("TypeError")
  ELSE Returned("new", -1,
                [chan \in 1 .. Len(mls[1]) |-> IntersectRuns(mls, n, chan)])

\* the idx<N> branch
SynthIdx(mls, m) ==
  LET idx == IntOf(Suffix(m, 3))
  IN  IF idx < 0 THEN Raised("ValueError")
      ELSE IF idx >= Len(mls) THEN Raised("IndexError")
      ELSE Returned("run", idx, mls[idx + 1])

\* the else branch: raise ValueError('Ref ML method %d unsupported' % method)
\* with method a str
SynthUnsupported(m) ==
  IF PercentD("str") = "formatted" THEN Raised("ValueError")
  ELSE Raised(PercentD("str"))

\* if num == 0: num = len(ml_list)
EffectiveNum(mls, n) == IF n = 0 THEN Len(mls) ELSE n

SyntheticMoveList(mls, m, n, c) ==
  IF StartsWith(m, Str(<<"m", "e", "d">>)) THEN SynthMedian(mls, EffectiveNum(mls, n), c)
  ELSE IF StartsWith(m, Str(<<"m", "a", "x">>)) THEN SynthMax(mls, EffectiveNum(mls, n), c)
  ELSE IF StartsWith(m, Str(<<"m", "i", "n">>)) THEN SynthMin(mls, EffectiveNum(mls, n), c)
  ELSE IF StartsWith(m, Str(<<"i", "n", "t">>)) THEN SynthInter(mls, EffectiveNum(mls, n), c)
  ELSE IF StartsWith(m, Str(<<"i", "d", "x">>)) THEN SynthIdx(mls, m)
  ELSE SynthUnsupported(m)

-----------------------------------------------------------------------------
(* Db2Lin / Lin2Db                                                         *)
(* Levels in dB are integers counting tenths of a dB (-960 is -96 dBm).    *)
(* Linear powers are integers counting 1e-15 mW, so -150 dBm is 1.         *)
(* Lin2Db has the resolution of a tenth of a dB: it rounds down.           *)

DbFloor == 0 - 1500     \* the level (tenths of dBm) whose linear value is 1
DbCeil == 0 - 600       \* the highest level the linear integers hold

\* 10^(b/10) and 10^(c/100), times 10^4, for b, c = 0 .. 9
Pow10Tenths == <<10000, 12589, 15849, 19953, 25119, 31623, 39811, 50119, 63096, 79433>>
Pow10Hundredths == <<10000, 10233, 10471, 10715, 10965, 11220, 11482, 11749, 12023, 12303>>

RECURSIVE Pow10(_)
Pow10(a) == IF a = 0 THEN 1 ELSE 10 * Pow10(a - 1)

\* toLinear(x) = 10^(x/10)
Db2Lin(x) ==
  LET e == x - DbFloor
      a == e \div 100
      mant == (Pow10Tenths[((e % 100) \div 10) + 1] * Pow10Hundredths[(e % 10) + 1])
                \div 10000
  IN  IF a >= 4 THEN mant * Pow10(a - 4) ELSE mant \div Pow10(4 - a)

NaN == [kind |-> "nan", db |-> 0]
NegInf == [kind |-> "-inf", db |-> 0]
Num(x) == [kind |-> "num", db |-> x]

\* the highest level in lo .. hi whose linear value is <= v (bisection)
RECURSIVE HighestLevelBelow(_, _, _)
HighestLevelBelow(v, lo, hi) ==
  IF lo = hi THEN lo
  ELSE LET mid == (lo + hi + 1) \div 2
       IN  IF Db2Lin(mid) <= v THEN HighestLevelBelow(v, mid, hi)
           ELSE HighestLevelBelow(v, lo, mid - 1)

\* toDb(v) = 10 * log10(v): nan for v < 0, -inf for v = 0
Lin2Db(v) ==
  IF v < 0 THEN NaN
  ELSE IF v = 0 THEN NegInf
  ELSE Num(HighestLevelBelow(v, DbFloor, DbCeil))

\* a - b on levels: nan and -inf stay what they are
DbMinus(a, b) == IF a.kind = "num" THEN Num(a.db - b) ELSE a

-----------------------------------------------------------------------------
(* ScatterAnalyze *)

\* diff_mw = Db2Lin(ref_levels + diff_levels) - Db2Lin(ref_levels)
DiffMw(ref_levels, diff_levels) ==
  [i \in 1 .. Len(ref_levels) |->
     Db2Lin(ref_levels[i] + diff_levels[i]) - Db2Lin(ref_levels[i])]

\* (mutant) the smallest entry
NpMin(a) == CHOOSE v \in {a[i] : i \in 1 .. Len(a)} : \A i \in 1 .. Len(a) : a[i] >= v

\* np.max
NpMax(a) == CHOOSE v \in {a[i] : i \in 1 .. Len(a)} : \A i \in 1 .. Len(a) : a[i] <= v

\* (mutant) the threshold's linear value left out of the sum
MaxMarginDbNoThreshold(max_diff_mw, threshold_db) ==
  DbMinus(Lin2Db(max_diff_mw), threshold_db)

\* max_margin_db = Lin2Db(max_diff_mw + Db2Lin(threshold_db)) - threshold_db
MaxMarginDb(max_diff_mw, threshold_db) ==
  DbMinus(Lin2Db(max_diff_mw + Db2Lin(threshold_db)), threshold_db)

\* the probe margins of the printed statistics, in tenths of a dB
ProbeMargins == <<15, 20, 25, 30, 35>>

\* np.count_nonzero(diff_mw < Db2Lin(threshold_db + p) - Db2Lin(threshold_db))
CountBelow(diff_mw, threshold_db, p) ==
  Cardinality({i \in 1 .. Len(diff_mw) :
                 diff_mw[i] < Db2Lin(threshold_db + p) - Db2Lin(threshold_db)})

\* margins_db = Lin2Db(diff_mw + Db2Lin(threshold_db)) - threshold_db, per sample
MarginsDb(levels, diffs, threshold_db) ==
  [i \in 1 .. Len(levels) |->
     MaxMarginDb(DiffMw(levels, diffs)[i], threshold_db)]

\* the order of np.sort: -inf first, nan last
SortsBefore(a, b) ==
  CASE a.kind = "-inf" -> TRUE
    [] a.kind = "nan" -> b.kind = "nan"
    [] OTHER -> b.kind = "nan" \/ (b.kind = "num" /\ a.db <= b.db)

RECURSIVE InsertMargin(_, _)
InsertMargin(s, v) ==
  IF s = <<>> THEN <<v>>
  ELSE IF SortsBefore(v, Head(s)) THEN <<v>> \o s
  ELSE <<Head(s)>> \o InsertMargin(Tail(s), v)

\* np.sort(margins_db)
RECURSIVE NpSort(_)
NpSort(s) == IF s = <<>> THEN <<>> ELSE InsertMargin(NpSort(Tail(s)), Head(s))

\* margin > floor as numpy compares: False for nan and for -inf
Above(m, floor) == m.kind = "num" /\ m.db > floor

\* a[-k:] for k >= 1: the last k entries, all of them when k >= len(a)
LastEntries(a, k) == IF k >= Len(a) THEN a ELSE Suffix(a, Len(a) - k)

\* the floors of the two CDF figures, in tenths of a dB
ScatterPlotFloor == 0 - 50
AnalyzePlotFloor == 0 - 10

NoPlot == [np_sort |-> <<>>, plotted |-> FALSE, x |-> <<>>, y |-> <<>>]

\* the complement CDF: sorted = np.sort(margins_db); sorted = sorted[sorted >
\* floor]; y_val = 1 - np.arange(n) / n; if len(sorted): plot(sorted,
\* y_val[-len(sorted):]).  An entry [i, n] of y stands for 1 - i/n.
CdfPlot(margins_db, floor, n) ==
  LET np_sort == NpSort(margins_db)
      sorted == SelectSeq(np_sort, LAMBDA m : Above(m, floor))
      y_val == [j \in 1 .. n |-> [i |-> j - 1, n |-> n]]
  IN  IF Len(sorted) = 0 THEN [NoPlot EXCEPT !.np_sort = np_sort]
      ELSE [np_sort |-> np_sort, plotted |-> TRUE, x |-> sorted,
            y |-> LastEntries(y_val, Len(sorted))]

NoStatistics ==
  [statistics |-> FALSE, max_diff_mw |-> 0, max_margin_db |-> NaN, below |-> <<>>,
   cdf |-> NoPlot]

ScatterAnalyze(ref_levels, diff_levels, threshold_db) ==
  IF ref_levels = <<>> THEN NoStatistics
  ELSE LET diff_mw == DiffMw(ref_levels, diff_levels)
           max_diff_mw == NpMax(diff_mw)
       IN  [statistics |-> TRUE,
            max_diff_mw |-> max_diff_mw,
            max_margin_db |-> MaxMarginDb(max_diff_mw, threshold_db),
            below |-> [p \in 1 .. Len(ProbeMargins) |->
                         CountBelow(diff_mw, threshold_db, ProbeMargins[p])],
            cdf |-> CdfPlot(MarginsDb(ref_levels, diff_levels, threshold_db),
                            ScatterPlotFloor, Len(ref_levels))]

-----------------------------------------------------------------------------
(* np.random *)

\* the state of np.random: the seed it was given last (a negative number
\* stands for the entropy a new process starts with) and the number of draws
\* made since
RandomState(seed, n) == [seed |-> seed, n |-> n]
Entropy(execution) == RandomState(0 - execution, 0)

\* (mutant) the seed not given to np.random
SeedNot(state, seed) == state

\* np.random.seed(options.seed)
Seed(state, seed) == RandomState(seed, 0)

\* a call that draws from np.random leaves it further on
Advance(state) == [state EXCEPT !.n = @ + 1]

\* a process as it starts: np.random unseeded, nothing generated yet
NewProcess(execution) == [state |-> Entropy(execution), generator |-> {}]

\* the external generator is a function of the random state: what it gave at
\* a state it gives again at that state
GeneratorGives(new_ml) ==
  \A d \in np_random.generator : d.at = np_random.state => d.ml = new_ml

\* np.random after dpa.ComputeMoveLists() gave new_ml
AfterGeneration(new_ml) ==
  [state |-> Advance(np_random.state),
   generator |-> np_random.generator \cup {[at |-> np_random.state, ml |-> new_ml]}]

\* np.random after one dpa.CheckInterference(...)
AfterCheckInterference == [np_random EXCEPT !.state = Advance(@)]

\* what neither ExtensiveInterferenceCheck nor the main program touches
CallsOnTheirOwn == <<ml_list, method, num, chan_idx, ref_ml, sc, db>>

\* what no step of ExtensiveInterferenceCheck touches but the checks
ExtFrameRest == <<CallsOnTheirOwn, sim, np_random>>

-----------------------------------------------------------------------------
(* ExtensiveInterferenceCheck                                              *)
(* ext is the frame of the call: its arguments, its locals and where it    *)
(* is.  Move lists are list objects of the heap, named by their id; the    *)
(* reference collection is a list of ids.  dpa.move_lists holds an id      *)
(* (0: None).                                                              *)

\* the move lists that a list of list objects holds
Deref(ids) == [i \in 1 .. Len(ids) |-> heap[ids[i]]]

\* the list object a successful SyntheticMoveList call returns: one of the
\* runs passed in (ref_ml = ml_list[i]) or a list built by the call
SynthObject(h, ids, r) ==
  IF r.kind = "run" THEN [heap |-> h, id |-> ids[r.idx + 1]]
  ELSE [heap |-> Append(h, r.value), id |-> Len(h) + 1]

\* one result of CheckInterference per protected point: A_DPA_ref has no
\* shape (a scalar) when the point has no valid reference value
PtNoShape == [shape |-> FALSE, A_DPA_ref |-> <<>>, A_DPA |-> <<>>]
PtOneAzimuth == [shape |-> TRUE, A_DPA_ref |-> <<0 - 1000>>, A_DPA |-> <<0 - 980>>]
InterfResults == {<<>>, <<PtNoShape>>, <<PtOneAzimuth>>, <<PtNoShape, PtOneAzimuth>>}

\* what one CheckInterference call may answer: success and its output_data
CheckOutcomes == [success : BOOLEAN, interf_results : InterfResults]

\* dpa.CheckInterference(uut_keep_list, dpa.margin_db, channel=channel, ...):
\* the reference move list it reads is the Dpa's current one; the call is
\* logged with what it answered
CheckInterference(d, success, c) ==
  [d EXCEPT !.check_log =
     Append(@, [success |-> success, move_list |-> heap[d.move_lists][c + 1]])]

\* for pt_res in interf_results: ... ref_levels.extend(pt_res.A_DPA_ref)
RECURSIVE ExtendRefLevels(_, _)
ExtendRefLevels(levels, results) ==
  IF results = <<>> THEN levels
  ELSE IF ~Head(results).shape THEN ExtendRefLevels(levels, Tail(results))
  ELSE ExtendRefLevels(levels \o Head(results).A_DPA_ref, Tail(results))

\* ... diff_levels.extend(pt_res.A_DPA - pt_res.A_DPA_ref)
RECURSIVE ExtendDiffLevels(_, _)
ExtendDiffLevels(levels, results) ==
  IF results = <<>> THEN levels
  ELSE IF ~Head(results).shape THEN ExtendDiffLevels(levels, Tail(results))
  ELSE ExtendDiffLevels(
         levels \o [i \in 1 .. Len(Head(results).A_DPA) |->
                      Head(results).A_DPA[i] - Head(results).A_DPA_ref[i]],
         Tail(results))

\* num_synth_ml = 1 if not ref_ml_num else ref_ml_num
NumSynthMl(ref_ml_num) == IF ref_ml_num = 0 THEN 1 ELSE ref_ml_num

\* (mutant) the last window position left out
NumCheckShort(len, ref_ml_num) == len - NumSynthMl(ref_ml_num)

\* num_check = len(ref_move_lists) - num_synth_ml + 1
NumCheck(len, ref_ml_num) == len - NumSynthMl(ref_ml_num) + 1

\* (mutant) every check counted as a success
AddSuccessAlways(num_success, success) == num_success + 1

\* num_success += <bool>
AddSuccess(num_success, success) == num_success + (IF success THEN 1 ELSE 0)

\* the frame on entry
ExtFrame(ref_move_lists, ref_ml_num, ref_ml_method, c) ==
  [pc |-> "start",
   ref_move_lists |-> ref_move_lists, ref_ml_num |-> ref_ml_num,
   ref_ml_method |-> ref_ml_method, chan_idx |-> c,
   num_success |-> 0, ref_levels |-> <<>>, diff_levels |-> <<>>,
   num_synth_ml |-> 0, num_check |-> 0, k |-> 0,
   n_assign |-> 0, n_check |-> 0, windows |-> <<>>,
   exc |-> "none", raised_at |-> "none",
   printed |-> FALSE, printed_success |-> 0, printed_check |-> 0,
   warned |-> FALSE, scatter |-> NoStatistics]

NoExt == [ExtFrame(<<>>, 0, <<>>, 0) EXCEPT !.pc = "idle"]

\* lines 374-380: the locals, and the loop entered or skipped
ExtStart ==
  /\ ext.pc = "start"
  /\ LET num_check == NumCheck(Len(ext.ref_move_lists), ext.ref_ml_num)
     IN  ext' = [ext EXCEPT !.num_synth_ml = NumSynthMl(ext.ref_ml_num),
                            !.num_check = num_check,
                            !.pc = IF num_check > 0 THEN "synth" ELSE "report"]
  /\ UNCHANGED <<heap, dpa>>
  /\ UNCHANGED ExtFrameRest

\* the runs a size-based or intersection SyntheticMoveList call looks at:
\* ml_list[:num] of the collection it is given
SynthWindow(ids, n) == {ids[i] : i \in 1 .. Min2(EffectiveNum(ids, n), Len(ids))}

\* lines 381-383: dpa.move_lists = SyntheticMoveList(ref_move_lists[k:], ...)
ExtSynthesize ==
  /\ ext.pc = "synth"
  /\ LET window == Suffix(ext.ref_move_lists, ext.k)
         r == SyntheticMoveList(Deref(window), ext.ref_ml_method,
                                ext.ref_ml_num, ext.chan_idx)
     IN  IF r.kind = "raise"
         THEN /\ ext' = [ext EXCEPT !.pc = "raised", !.exc = r.exc,
                                    !.raised_at = "SyntheticMoveList"]
              /\ UNCHANGED <<heap, dpa>>
         ELSE /\ heap' = SynthObject(heap, window, r).heap
              /\ dpa' = [dpa EXCEPT !.move_lists = SynthObject(heap, window, r).id]
              /\ ext' = [ext EXCEPT !.pc = "check", !.n_assign = @ + 1,
                                    !.windows = Append(@, SynthWindow(window,
                                                          ext.ref_ml_num))]
  /\ UNCHANGED ExtFrameRest

\* lines 384-393: one CheckInterference, its success counted and its samples
\* collected; then the next k
ExtCheckInterference ==
  /\ ext.pc = "check"
  /\ \E out \in dpa.may_report :
       /\ dpa' = CheckInterference(dpa, out.success, ext.chan_idx)
       /\ ext' = [ext EXCEPT
                    !.num_success = AddSuccess(@, out.success),
                    !.ref_levels = ExtendRefLevels(@, out.interf_results),
                    !.diff_levels = ExtendDiffLevels(@, out.interf_results),
                    !.n_check = @ + 1,
                    !.k = @ + 1,
                    !.pc = IF ext.k + 1 < ext.num_check THEN "synth" ELSE "report"]
  /\ np_random' = AfterCheckInterference
  /\ UNCHANGED heap
  /\ UNCHANGED <<CallsOnTheirOwn, sim>>

\* lines 395-397: the summary line, with (100. * num_success) / num_check
ExtReport ==
  /\ ext.pc = "report"
  /\ IF ext.num_check = 0
     THEN ext' = [ext EXCEPT !.pc = "raised", !.exc = "ZeroDivisionError",
                             !.raised_at = "report"]
     ELSE ext' = [ext EXCEPT !.pc = "scatter", !.printed = TRUE,
                             !.printed_success = ext.num_success,
                             !.printed_check = ext.num_check]
  /\ UNCHANGED <<heap, dpa>>
  /\ UNCHANGED ExtFrameRest

\* (mutant) the warning never given
EmptyInterferenceNever(ref_levels) == FALSE

\* if not ref_levels: print('Empty interference - Please check your setup')
EmptyInterference(ref_levels) == ref_levels = <<>>

\* lines 398-403: the warning, ScatterAnalyze and the return of the arrays
ExtScatterAndReturn ==
  /\ ext.pc = "scatter"
  /\ ext' = [ext EXCEPT !.pc = "done",
                         !.warned = EmptyInterference(ext.ref_levels),
                         !.scatter = ScatterAnalyze(ext.ref_levels, ext.diff_levels,
                                                    dpa.threshold)]
  /\ UNCHANGED <<heap, dpa>>
  /\ UNCHANGED ExtFrameRest

-----------------------------------------------------------------------------
(* The method names the program is run with, and the idle frames *)

MIN == <<"m", "i", "n">>
MAX == <<"m", "a", "x">>
MED == <<"m", "e", "d">>
MEDIAN == <<"m", "e", "d", "i", "a", "n">>
INTER == <<"i", "n", "t", "e", "r">>
INTERSECTION == <<"i", "n", "t", "e", "r", "s", "e", "c", "t", "i", "o", "n">>
IDX1 == <<"i", "d", "x", "1">>
AVG == <<"a", "v", "g">>
UPPERMAX == <<"M", "a", "x">>
EMPTYSTR == <<>>

RecognizedMethods == {MIN, MAX, MED, MEDIAN, INTER, INTERSECTION, IDX1}
UnknownMethods == {AVG, UPPERMAX, EMPTYSTR}
Methods == RecognizedMethods \cup UnknownMethods

NoDpa == [move_lists |-> 0, threshold |-> 0 - 960, check_log |-> <<>>,
          may_report |-> {}]
NoSc == [pc |-> "idle", ref_levels |-> <<>>, diff_levels |-> <<>>,
         threshold_db |-> 0, out |-> NoStatistics]

-----------------------------------------------------------------------------
(* The main program: DpaSimulate and DpaAnalyzeLogs                        *)
(* sim is the frame of the program: the options, the locals and where it   *)
(* is.  dpa is the reference Dpa, sim.dpa_uut_move_lists the move_lists    *)
(* field of dpa_uut.  sim.appended records every run at the moment it is   *)
(* appended to a run collection: the collection, the list object and its   *)
(* content then.                                                           *)

\* dpa.ComputeMoveLists(): regenerates the move lists of a Dpa whose
\* move_lists field holds object id, as new_ml.  An implementation may bind
\* the field to a new list or refill the list the field holds.
ComputeMoveLists(h, id, new_ml, inplace) ==
  IF inplace /\ id # 0 THEN [heap |-> [h EXCEPT ![id] = new_ml], id |-> id]
  ELSE [heap |-> Append(h, new_ml), id |-> Len(h) + 1]

\* (mutant) the list object itself appended: runs.append(dpa.move_lists)
NoCopy(h, id) == [heap |-> h, id |-> id]

\* copy.copy(dpa.move_lists): a new list with the same sets
CopyCopy(h, id) == [heap |-> Append(h, h[id]), id |-> Len(h) + 1]

\* GetMostUsedChannel(dpa): the first channel with the most neighbors
GetMostUsedChannel ==
  ArgMax([c \in 1 .. NumChannels |-> Cardinality(GrantsOnChannel[c])])

\* the move lists one ComputeMoveLists run may produce
GenPool == {<<{"g1", "g2"}, {"g3"}>>, <<{"g1"}, {}>>}

\* the answers CheckInterference may give in one execution of the program
ProgramOutcomes ==
  {[success |-> TRUE, interf_results |-> <<PtOneAzimuth>>],
   [success |-> FALSE, interf_results |-> <<PtNoShape>>]}

\* --seed, when not given
DefaultSeed == 12

\* the file names of the command line
CONFIG_JSON == <<"c", ".", "j", "s", "o", "n">>
LOG_CSV == <<"l", ".", "c", "s", "v">>
CSV == <<"c", "s", "v">>

\* s.endswith(suffix)
EndsWith(s, suffix) ==
  /\ Len(s) >= Len(suffix)
  /\ SubSeq(s, Len(s) - Len(suffix) + 1, Len(s)) = suffix

\* what ReadDpaLogFile returns: ref_nbor_list, ref_keep_list, uut_keep_list
LogWithPeers ==
  [ref_nbor_list |-> {"g1", "g2", "g3"}, ref_keep_list |-> {"g2"},
   uut_keep_list |-> {"g1"}]
LogWithPeersKeepOthers ==
  [ref_nbor_list |-> {"g1", "g2"}, ref_keep_list |-> {"g1", "g3"},
   uut_keep_list |-> {}]
LogNoPeers ==
  [ref_nbor_list |-> {}, ref_keep_list |-> {}, uut_keep_list |-> {"g1"}]
LogEmpty ==
  [ref_nbor_list |-> {}, ref_keep_list |-> {}, uut_keep_list |-> {}]

\* the files an execution is given: --log_file, the positional config_file,
\* whether the config read has grants, and the log read
Files(log_file, config_file, config_has_grants, log) ==
  [log_file |-> log_file, config_file |-> config_file,
   config_has_grants |-> config_has_grants, log |-> log]

SimulateFiles == {Files(EMPTYSTR, CONFIG_JSON, TRUE, LogEmpty)}

AnalyzeFiles ==
  {Files(LOG_CSV, CONFIG_JSON, TRUE, LogWithPeers),
   Files(EMPTYSTR, LOG_CSV, FALSE, LogWithPeersKeepOthers),
   Files(LOG_CSV, EMPTYSTR, FALSE, LogNoPeers),
   Files(LOG_CSV, CONFIG_JSON, TRUE, LogNoPeers),
   Files(LOG_CSV, CONFIG_JSON, FALSE, LogWithPeers),
   Files(LOG_CSV, CONFIG_JSON, FALSE, LogEmpty),
   Files(LOG_CSV, EMPTYSTR, FALSE, LogEmpty),
   Files(LOG_CSV, CONFIG_JSON, TRUE, LogEmpty)}

Options ==
  [log_file : {EMPTYSTR, LOG_CSV},
   config_file : {EMPTYSTR, CONFIG_JSON, LOG_CSV},
   num_ml : (1 .. MaxNumMl) \cup {LargeNumMl},
   ref_ml_num : (0 .. MaxNumMl) \cup {LargeNumMl + 4},
   uut_ml_num : 0 .. MaxNumMl,
   ref_ml_method : {MAX, INTER},
   uut_ml_method : {MIN},
   do_extensive : BOOLEAN,
   dpa_builder_uut : BOOLEAN,
   cache_file : BOOLEAN,
   seed : {DefaultSeed}]

\* x or y on integers
Or(x, y) == IF x # 0 THEN x ELSE y

\* the run collections of an earlier execution, for comparison
NoFirst == [ref |-> <<>>, uut |-> <<>>, generated |-> <<>>]

Unbound == [bound |-> FALSE, value |-> {}]
Bound(v) == [bound |-> TRUE, value |-> v]

SimFrame(options, inplace, config_has_grants, log) ==
  [pc |-> "main", mode |-> "none", options |-> options,
   compute_inplace |-> inplace,
   config_has_grants |-> config_has_grants, log |-> log,
   log_file |-> EMPTYSTR, config_file |-> EMPTYSTR, grants |-> FALSE,
   ref_nbor_list |-> {}, ref_keep_list |-> {}, uut_keep_list |-> {},
   no_peers |-> FALSE, ref_move_list_other |-> Unbound, read |-> <<>>,
   cache_written |-> FALSE, execution |-> 1, first |-> NoFirst,
   real_levels |-> <<>>, real_diffs |-> <<>>, good_levels |-> <<>>,
   good_diffs |-> <<>>, real_margins_db |-> <<>>, good_margins_db |-> <<>>,
   real_plot |-> NoPlot, good_plot |-> NoPlot,
   num_ref_ml |-> 0, num_uut_ml |-> 0, num_base_ml |-> 0, k |-> 0,
   ref_move_list_runs |-> <<>>, uut_move_list_runs |-> <<>>,
   dpa_uut_move_lists |-> 0, chan_idx |-> 0,
   appended |-> <<>>, generation |-> 0, exc |-> "none", phase |-> "none"]

NoSim == [SimFrame([log_file |-> EMPTYSTR, config_file |-> EMPTYSTR,
                    num_ml |-> 1, ref_ml_num |-> 0,
                    uut_ml_num |-> 0, ref_ml_method |-> <<>>,
                    uut_ml_method |-> <<>>, do_extensive |-> FALSE,
                    cache_file |-> FALSE, seed |-> DefaultSeed,
                    dpa_builder_uut |-> FALSE], FALSE, FALSE, LogEmpty)
            EXCEPT !.pc = "idle"]

\* what no step of the main program touches but those that draw
SimFrameRest == <<CallsOnTheirOwn, np_random>>

\* (mutant) the positional file name not looked at
AnalyzeChosenLogOnly(options) == options.log_file # EMPTYSTR

\* if options.log_file or options.config_file.endswith('csv')
AnalyzeChosen(options) ==
  options.log_file # EMPTYSTR \/ EndsWith(options.config_file, CSV)

\* lines 873-880: the mode
Main ==
  /\ sim.pc = "main"
  /\ sim' = [sim EXCEPT
               !.mode = IF AnalyzeChosen(sim.options) THEN "analyze" ELSE "simulate",
               !.log_file = sim.options.log_file,
               !.config_file = sim.options.config_file,
               !.pc = IF AnalyzeChosen(sim.options) THEN "an_read" ELSE "sim_setup"]
  /\ UNCHANGED <<heap, dpa, ext>>
  /\ UNCHANGED SimFrameRest

\* lines 526-573: np.random seeded, the config read, the numbers of move
\* lists, the empty run
\* collection
SimSetup ==
  /\ sim.pc = "sim_setup"
  /\ LET o == sim.options
         num_ref_ml == Or(o.ref_ml_num, o.num_ml)
         num_uut_ml == Or(o.uut_ml_num, o.num_ml)
         base == IF o.dpa_builder_uut THEN num_ref_ml ELSE Max2(num_ref_ml, num_uut_ml)
     IN  sim' = [sim EXCEPT
                  !.num_ref_ml = num_ref_ml, !.num_uut_ml = num_uut_ml,
                  !.num_base_ml = IF o.do_extensive THEN Max2(base, o.num_ml) ELSE base,
                  !.ref_move_list_runs = <<>>, !.k = 0,
                  !.read = <<sim.config_file>>,
                  !.pc = "sim_gen"]
  /\ np_random' = [np_random EXCEPT !.state = Seed(@, sim.options.seed)]
  /\ UNCHANGED <<heap, dpa, ext>>
  /\ UNCHANGED CallsOnTheirOwn

\* the frame after ref_move_list_runs.append(copy.copy(dpa.move_lists)) of
\* the list object id, in heap h
AppendRun(f, coll, h, id) ==
  [f EXCEPT !.appended = Append(@, [coll |-> coll, generation |-> f.generation,
                                    id |-> id, value |-> h[id]]),
            !.k = @ + 1]

\* lines 574-577, one iteration: dpa.ComputeMoveLists() and the append
SimGenerate ==
  /\ sim.pc = "sim_gen"
  /\ \E new_ml \in GenPool :
       LET c == ComputeMoveLists(heap, dpa.move_lists, new_ml, sim.compute_inplace)
           a == CopyCopy(c.heap, c.id)
       IN  /\ GeneratorGives(new_ml)
           /\ np_random' = AfterGeneration(new_ml)
           /\ heap' = a.heap
           /\ dpa' = [dpa EXCEPT !.move_lists = c.id]
           /\ sim' = [AppendRun(sim, "ref", a.heap, a.id) EXCEPT
                        !.ref_move_list_runs = Append(@, a.id),
                        !.pc = IF sim.k + 1 < sim.num_base_ml THEN "sim_gen"
                               ELSE "sim_uut"]
  /\ UNCHANGED ext
  /\ UNCHANGED CallsOnTheirOwn

\* lines 585-592: dpa_uut = copy.copy(dpa), the UUT collection a slice of the
\* reference one, or emptied to be generated
SimBuildUut ==
  /\ sim.pc = "sim_uut"
  /\ sim' = [sim EXCEPT
               !.dpa_uut_move_lists = dpa.move_lists,
               !.uut_move_list_runs =
                  IF sim.options.dpa_builder_uut THEN <<>>
                  ELSE Prefix(sim.ref_move_list_runs, sim.num_uut_ml),
               !.generation = IF sim.options.dpa_builder_uut THEN @ + 1 ELSE @,
               !.k = 0,
               !.pc = IF sim.options.dpa_builder_uut THEN "sim_gen_uut" ELSE "sim_slice"]
  /\ UNCHANGED <<heap, dpa, ext>>
  /\ UNCHANGED SimFrameRest

\* lines 593-596, one iteration: dpa_uut.ComputeMoveLists() and the append
SimGenerateUut ==
  /\ sim.pc = "sim_gen_uut"
  /\ \E new_ml \in GenPool :
       LET c == ComputeMoveLists(heap, sim.dpa_uut_move_lists, new_ml,
                                 sim.compute_inplace)
           a == CopyCopy(c.heap, c.id)
       IN  /\ GeneratorGives(new_ml)
           /\ np_random' = AfterGeneration(new_ml)
           /\ heap' = a.heap
           /\ sim' = [AppendRun(sim, "uut", a.heap, a.id) EXCEPT
                        !.dpa_uut_move_lists = c.id,
                        !.uut_move_list_runs = Append(@, a.id),
                        !.pc = IF sim.k + 1 < sim.num_uut_ml THEN "sim_gen_uut"
                               ELSE "sim_slice"]
  /\ UNCHANGED <<dpa, ext>>
  /\ UNCHANGED CallsOnTheirOwn

\* lines 598-609: ref_move_list_runs = ref_move_list_runs[:num_ref_ml], and
\* the channel to check
SimSliceRef ==
  /\ sim.pc = "sim_slice"
  /\ sim' = [sim EXCEPT
               !.ref_move_list_runs = Prefix(@, sim.num_ref_ml),
               !.cache_written = sim.options.cache_file,
               !.chan_idx = GetMostUsedChannel,
               !.pc = "sim_synth_ref"]
  /\ UNCHANGED <<heap, dpa, ext>>
  /\ UNCHANGED SimFrameRest

\* lines 622-624: dpa.move_lists = SyntheticMoveList(ref_move_list_runs, ...)
SimSynthRef ==
  /\ sim.pc = "sim_synth_ref"
  /\ LET r == SyntheticMoveList(Deref(sim.ref_move_list_runs),
                                sim.options.ref_ml_method, sim.options.ref_ml_num,
                                sim.chan_idx)
     IN  IF r.kind = "raise"
         THEN /\ sim' = [sim EXCEPT !.pc = "raised", !.exc = r.exc]
              /\ UNCHANGED <<heap, dpa>>
         ELSE /\ heap' = SynthObject(heap, sim.ref_move_list_runs, r).heap
              /\ dpa' = [dpa EXCEPT !.move_lists =
                           SynthObject(heap, sim.ref_move_list_runs, r).id]
              /\ sim' = [sim EXCEPT !.pc = "sim_synth_uut"]
  /\ UNCHANGED ext
  /\ UNCHANGED SimFrameRest

\* lines 627-630: dpa_uut.move_lists = SyntheticMoveList(uut_move_list_runs, ...)
SimSynthUut ==
  /\ sim.pc = "sim_synth_uut"
  /\ LET r == SyntheticMoveList(Deref(sim.uut_move_list_runs),
                                sim.options.uut_ml_method, sim.options.uut_ml_num,
                                sim.chan_idx)
     IN  IF r.kind = "raise"
         THEN /\ sim' = [sim EXCEPT !.pc = "raised", !.exc = r.exc]
              /\ UNCHANGED heap
         ELSE /\ heap' = SynthObject(heap, sim.uut_move_list_runs, r).heap
              /\ sim' = [sim EXCEPT
                           !.dpa_uut_move_lists =
                              SynthObject(heap, sim.uut_move_list_runs, r).id,
                           !.pc = "sim_basic"]
  /\ UNCHANGED <<dpa, ext>>
  /\ UNCHANGED SimFrameRest

\* lines 636-644: the basic interference check
SimBasicCheck ==
  /\ sim.pc = "sim_basic"
  /\ \E out \in dpa.may_report :
       dpa' = CheckInterference(dpa, out.success, sim.chan_idx)
  /\ sim' = [sim EXCEPT !.pc = IF sim.options.do_extensive THEN "sim_ext" ELSE "end"]
  /\ np_random' = AfterCheckInterference
  /\ UNCHANGED <<heap, ext>>
  /\ UNCHANGED CallsOnTheirOwn

\* lines 646-648: ExtensiveInterferenceCheck(dpa, uut_keep_list,
\* ref_move_list_runs, options.ref_ml_num, options.ref_ml_method, ...)
SimCallExtensive ==
  /\ sim.pc = "sim_ext"
  /\ ext' = ExtFrame(sim.ref_move_list_runs, sim.options.ref_ml_num,
                     sim.options.ref_ml_method, sim.chan_idx)
  /\ sim' = [sim EXCEPT !.pc = "in_ext", !.phase = "sim_ext"]
  /\ UNCHANGED <<heap, dpa>>
  /\ UNCHANGED SimFrameRest

\* (mutant) the fresh reference runs generated without the toggle
AfterRetestAlways(options) == "an_gen"

\* lines 781-782: if not options.do_extensive: return
AfterRetest(options) == IF options.do_extensive THEN "an_gen" ELSE "end"

\* the program goes on after a call of ExtensiveInterferenceCheck: at the
\* statement after the call, or with the exception the call raised
ExtensiveReturns ==
  /\ sim.pc = "in_ext"
  /\ ext.pc \in {"done", "raised"}
  /\ IF ext.pc = "raised"
     THEN sim' = [sim EXCEPT !.pc = "raised", !.exc = ext.exc]
     ELSE sim' = [sim EXCEPT
                   !.pc = CASE sim.phase = "sim_ext" -> "end"
                            [] sim.phase = "an_retest" -> AfterRetest(sim.options)
                            [] sim.phase = "an_real" -> "an_good_synth"
                            [] OTHER -> "an_cdf",
                   !.real_levels = IF sim.phase = "an_real" THEN ext.ref_levels ELSE @,
                   !.real_diffs = IF sim.phase = "an_real" THEN ext.diff_levels ELSE @,
                   !.good_levels = IF sim.phase = "an_good" THEN ext.ref_levels ELSE @,
                   !.good_diffs = IF sim.phase = "an_good" THEN ext.diff_levels ELSE @,
                   !.k = 0]
  /\ UNCHANGED <<heap, dpa, ext>>
  /\ UNCHANGED SimFrameRest

\* [None] * len(dpa._channels)
None == "None"

\* the fewest checks of the re-test of the logged move list
MinRetestChecks == 10

\* lines 669-678: grants are read from the config when one is given, and are
\* the neighbor list of the log otherwise
GrantsAvailable(config_file, config_has_grants, ref_nbor_list) ==
  IF config_file # EMPTYSTR THEN config_has_grants ELSE ref_nbor_list # {}

\* lines 658-689: np.random seeded, the files read; without grants nothing
\* to analyze
AnReadLog ==
  /\ sim.pc = "an_read"
  /\ LET swap == sim.log_file = EMPTYSTR /\ sim.config_file # EMPTYSTR
         log_file == IF swap THEN sim.config_file ELSE sim.log_file
         config_file == IF swap THEN EMPTYSTR ELSE sim.config_file
         grants == GrantsAvailable(config_file, sim.config_has_grants,
                                   sim.log.ref_nbor_list)
     IN  sim' = [sim EXCEPT
                  !.log_file = log_file, !.config_file = config_file,
                  !.read = IF config_file # EMPTYSTR THEN <<log_file, config_file>>
                           ELSE <<log_file>>,
                  !.ref_nbor_list = sim.log.ref_nbor_list,
                  !.ref_keep_list = sim.log.ref_keep_list,
                  !.uut_keep_list = sim.log.uut_keep_list,
                  !.grants = grants,
                  !.no_peers = (sim.log.ref_nbor_list = {}
                                  /\ sim.log.uut_keep_list # {}),
                  !.exc = IF grants THEN "none" ELSE "ValueError",
                  !.pc = IF grants THEN "an_compute" ELSE "raised"]
  /\ np_random' = [np_random EXCEPT !.state = Seed(@, sim.options.seed)]
  /\ UNCHANGED <<heap, dpa, ext>>
  /\ UNCHANGED CallsOnTheirOwn

\* lines 702-711: the first dpa.ComputeMoveLists(), and the channel
AnComputeMoveLists ==
  /\ sim.pc = "an_compute"
  /\ \E new_ml \in GenPool :
       LET c == ComputeMoveLists(heap, dpa.move_lists, new_ml, sim.compute_inplace)
       IN  /\ GeneratorGives(new_ml)
           /\ np_random' = AfterGeneration(new_ml)
           /\ heap' = c.heap
           /\ dpa' = [dpa EXCEPT !.move_lists = c.id]
  /\ sim' = [sim EXCEPT !.chan_idx = GetMostUsedChannel, !.pc = "an_plot"]
  /\ UNCHANGED ext
  /\ UNCHANGED CallsOnTheirOwn

\* (mutant) the whole neighbor list
RefMoveListAll(nbor_list, ref_keep_list) == nbor_list

\* nbor_list.difference(ref_keep_list)
RefMoveList(nbor_list, ref_keep_list) == nbor_list \ ref_keep_list

\* dpa.GetNeighborList(channel)
GetNeighborList(c) == GrantsOnChannel[c + 1]

\* lines 712-746: the lists plotted on the maps; ref_move_list_other is
\* assigned only when the log has a neighbor list, and is read at line 743
AnPlotLists ==
  /\ sim.pc = "an_plot"
  /\ LET ref_move_list_other ==
           IF sim.ref_nbor_list # {}
           THEN Bound(RefMoveList(GetNeighborList(sim.chan_idx), sim.ref_keep_list))
           ELSE Unbound
     IN  sim' = [sim EXCEPT
                  !.ref_move_list_other = ref_move_list_other,
                  !.exc = IF ref_move_list_other.bound THEN "none"
                          ELSE "UnboundLocalError",
                  !.pc = IF ref_move_list_other.bound THEN "an_setup" ELSE "raised"]
  /\ UNCHANGED <<heap, dpa, ext>>
  /\ UNCHANGED SimFrameRest

\* lines 749-751, 768: the numbers of move lists
AnSetup ==
  /\ sim.pc = "an_setup"
  /\ LET o == sim.options
         num_ref_ml == Or(o.ref_ml_num, o.num_ml)
     IN  sim' = [sim EXCEPT
                  !.num_ref_ml = num_ref_ml, !.num_uut_ml = o.num_ml,
                  !.num_base_ml = Max2(num_ref_ml, o.num_ml),
                  !.pc = IF sim.ref_nbor_list # {} THEN "an_retest"
                         ELSE AfterRetest(o)]
  /\ UNCHANGED <<heap, dpa, ext>>
  /\ UNCHANGED SimFrameRest

\* (mutant) ten checks whatever the number of move lists
RetestNumCheckFixed(num_base_ml) == MinRetestChecks

\* num_check = max(10, num_base_ml // 2)
RetestNumCheck(num_base_ml) == Max2(MinRetestChecks, num_base_ml \div 2)

\* lines 770-778: the logged reference move list, checked num_check times:
\* many_ref_move_list_runs holds the same list object num_check times
AnRetest ==
  /\ sim.pc = "an_retest"
  /\ LET num_check == RetestNumCheck(sim.num_base_ml)
         nbor_list == GetNeighborList(sim.chan_idx)
         full_ref_move_list_runs ==
           [c \in 1 .. NumChannels |->
              IF c = sim.chan_idx + 1 THEN RefMoveList(nbor_list, sim.ref_keep_list)
              ELSE None]
         id == Len(heap) + 1
     IN  /\ heap' = Append(heap, full_ref_move_list_runs)
         /\ ext' = ExtFrame([i \in 1 .. num_check |-> id], 1, MAX, sim.chan_idx)
  /\ sim' = [sim EXCEPT !.pc = "in_ext", !.phase = "an_retest"]
  /\ UNCHANGED dpa
  /\ UNCHANGED SimFrameRest

\* lines 793-797, one iteration: dpa.ComputeMoveLists() and the append
AnGenerate ==
  /\ sim.pc = "an_gen"
  /\ \E new_ml \in GenPool :
       LET c == ComputeMoveLists(heap, dpa.move_lists, new_ml, sim.compute_inplace)
           a == CopyCopy(c.heap, c.id)
       IN  /\ GeneratorGives(new_ml)
           /\ np_random' = AfterGeneration(new_ml)
           /\ heap' = a.heap
           /\ dpa' = [dpa EXCEPT !.move_lists = c.id]
           /\ sim' = [AppendRun(sim, "ref", a.heap, a.id) EXCEPT
                        !.ref_move_list_runs = Append(@, a.id),
                        !.pc = IF sim.k + 1 < sim.num_base_ml THEN "an_gen"
                               ELSE "an_uut"]
  /\ UNCHANGED ext
  /\ UNCHANGED CallsOnTheirOwn

\* lines 800-813: dpa_uut = copy.copy(dpa), the two slices and the cache
AnBuildUut ==
  /\ sim.pc = "an_uut"
  /\ sim' = [sim EXCEPT
               !.dpa_uut_move_lists = dpa.move_lists,
               !.uut_move_list_runs = Prefix(sim.ref_move_list_runs, sim.num_uut_ml),
               !.ref_move_list_runs = Prefix(@, sim.num_ref_ml),
               !.cache_written = sim.options.cache_file,
               !.pc = "an_real"]
  /\ UNCHANGED <<heap, dpa, ext>>
  /\ UNCHANGED SimFrameRest

\* lines 821-825: the logged UUT keep list against the generated runs
AnCheckReal ==
  /\ sim.pc = "an_real"
  /\ ext' = ExtFrame(sim.ref_move_list_runs, sim.options.ref_ml_num,
                     sim.options.ref_ml_method, sim.chan_idx)
  /\ sim' = [sim EXCEPT !.pc = "in_ext", !.phase = "an_real"]
  /\ UNCHANGED <<heap, dpa>>
  /\ UNCHANGED SimFrameRest

\* lines 836-844: dpa_uut.move_lists = SyntheticMoveList(ref_move_list_runs,
\* options.uut_ml_method, options.uut_ml_num, chan_idx), checked the same way
AnCheckGood ==
  /\ sim.pc = "an_good_synth"
  /\ LET r == SyntheticMoveList(Deref(sim.ref_move_list_runs),
                                sim.options.uut_ml_method, sim.options.uut_ml_num,
                                sim.chan_idx)
     IN  IF r.kind = "raise"
         THEN /\ sim' = [sim EXCEPT !.pc = "raised", !.exc = r.exc]
              /\ UNCHANGED <<heap, ext>>
         ELSE /\ heap' = SynthObject(heap, sim.ref_move_list_runs, r).heap
              /\ ext' = ExtFrame(sim.ref_move_list_runs, sim.options.ref_ml_num,
                                 sim.options.ref_ml_method, sim.chan_idx)
              /\ sim' = [sim EXCEPT
                           !.dpa_uut_move_lists =
                              SynthObject(heap, sim.ref_move_list_runs, r).id,
                           !.pc = "in_ext", !.phase = "an_good"]
  /\ UNCHANGED dpa
  /\ UNCHANGED SimFrameRest

\* lines 848-869: the margins of the two scenarios, for the CDF figure
AnPlotCdf ==
  /\ sim.pc = "an_cdf"
  /\ sim' = [sim EXCEPT
               !.real_margins_db = MarginsDb(sim.real_levels, sim.real_diffs,
                                             dpa.threshold),
               !.good_margins_db = MarginsDb(sim.good_levels, sim.good_diffs,
                                             dpa.threshold),
               !.real_plot = CdfPlot(MarginsDb(sim.real_levels, sim.real_diffs,
                                               dpa.threshold),
                                     AnalyzePlotFloor, Len(sim.real_levels)),
               !.good_plot = CdfPlot(MarginsDb(sim.good_levels, sim.good_diffs,
                                               dpa.threshold),
                                     AnalyzePlotFloor, Len(sim.real_levels)),
               !.pc = "end"]
  /\ UNCHANGED <<heap, dpa, ext>>
  /\ UNCHANGED SimFrameRest

-----------------------------------------------------------------------------
(* database.py: DatabaseServer, DatabaseHTTPServer, DatabaseHandler         *)
(* db holds the server object, its thread (run), the thread that controls  *)
(* it (shutdown, setFileToServe, setFilesToServe) and the request being    *)
(* handled.  A mapping of urls to paths is a function on the urls it holds. *)

Urls == {"/allsitedata", "/othersitedata"}
FilePaths == {"allsitedata1", "allsitedata2"}

\* the dicts a caller may pass: any mapping of some urls to paths
FileUrlFilePathDicts == UNION {[us -> FilePaths] : us \in SUBSET Urls}

\* the names bound in the module: its imports (lines 31-44) and its own
\* definitions
ModuleGlobals ==
  {"absolute_import", "division", "print_function", "base64", "logging", "ssl",
   "threading", "six", "HTTPServer", "SimpleHTTPRequestHandler", "util",
   "DatabaseServer", "DatabaseHTTPServer", "DatabaseHandler"}

\* the evaluation of a global name: NameError when nothing binds it
NameLookup(name) == IF name \in ModuleGlobals THEN "bound" ELSE "NameError"

\* lines 112-116, the except block: traceback.print_exc(), then
\* logging.error(..., datetime.utcnow()...); "handled" when it runs to its end
ExceptBlock ==
  IF NameLookup("traceback") # "bound" THEN NameLookup("traceback")
  ELSE IF NameLookup("logging") # "bound" THEN NameLookup("logging")
  ELSE IF NameLookup("datetime") # "bound" THEN NameLookup("datetime")
  ELSE "handled"

\* self.wfile.write('...') with a str: the socket file takes bytes under
\* Python 3 and raises TypeError, under Python 2 a str is bytes
WfileWriteStr(python) == IF python = 3 THEN "TypeError" ELSE "written"

\* no request being handled
NoRequest ==
  [pc |-> "idle", path |-> "", authorization |-> "none", result |-> "",
   exc |-> "none", tested |-> FALSE, mappings |-> {}]

\* the state after DatabaseServer(name, host_name, port, https, authorization)
\* under a Python 2 or Python 3 interpreter: file_paths empty (line 152), the
\* thread not started; self.stopped is an attribute only once run() or
\* shutdown() has set it, and nothing reads it before
DatabaseServer(python, authorization) ==
  [python |-> python, authorization |-> authorization,
   file_paths |-> [u \in {} |-> ""],
   stopped |-> FALSE, stopped_by_shutdown |-> FALSE,
   run |-> "not_started", exc |-> "none",
   shutdown_request |-> FALSE, shutdown |-> "not_called",
   serve_forever_calls |-> 0, serve_forever_raised |-> 0, logged_errors |-> 0,
   requests |-> 0, sets |-> 0,
   handler |-> NoRequest]

\* no server at all
NoDb == [DatabaseServer(2, FALSE) EXCEPT !.run = "none"]

\* what the server object leaves alone
ProgramVars ==
  <<ml_list, method, num, chan_idx, ref_ml, heap, ext, dpa, sc, sim, np_random>>

\* a request is being handled
InRequest == db.handler.pc \in {"translate_path", "test", "lookup"}

\* d.start(): the thread starts run()
Start ==
  /\ db.run = "not_started"
  /\ db' = [db EXCEPT !.run = "run"]
  /\ UNCHANGED ProgramVars

\* line 106: self.stopped = False
Run ==
  /\ db.run = "run"
  /\ db' = [db EXCEPT !.stopped = FALSE, !.run = "while"]
  /\ UNCHANGED ProgramVars

\* lines 107-111 and 117-118: the loop test; then serve_forever is entered,
\* or the loop is left and run returns
RunWhile ==
  /\ db.run = "while"
  /\ ~db.stopped => db.serve_forever_calls < MaxServeForever
  /\ db' = IF ~db.stopped
           THEN [db EXCEPT !.run = "serve_forever", !.serve_forever_calls = @ + 1]
           ELSE [db EXCEPT !.run = "returned"]
  /\ UNCHANGED ProgramVars

\* line 111: serve_forever raises (a socket or select error), between two
\* requests
ServeForeverRaises ==
  /\ db.run = "serve_forever" /\ ~InRequest
  /\ db' = [db EXCEPT !.run = "except", !.serve_forever_raised = @ + 1,
                      !.shutdown_request = FALSE]
  /\ UNCHANGED ProgramVars

\* lines 112-116: the except block; an exception raised in it leaves run()
RunExcept ==
  /\ db.run = "except"
  /\ db' = IF ExceptBlock = "handled"
           THEN [db EXCEPT !.run = "while", !.logged_errors = @ + 1]
           ELSE [db EXCEPT !.run = "died", !.exc = ExceptBlock]
  /\ UNCHANGED ProgramVars

\* line 111: serve_forever returns once self.server.shutdown() asked for it
ServeForeverReturns ==
  /\ db.run = "serve_forever" /\ ~InRequest
  /\ db.shutdown_request
  /\ db' = [db EXCEPT !.run = "while", !.shutdown_request = FALSE]
  /\ UNCHANGED ProgramVars

\* line 122: self.stopped = True
Shutdown ==
  /\ db.shutdown = "not_called" /\ db.run # "not_started"
  /\ db' = [db EXCEPT !.stopped = TRUE, !.stopped_by_shutdown = TRUE,
                      !.shutdown = "stopped_set"]
  /\ UNCHANGED ProgramVars

\* lines 123-125: self.server.shutdown() asks serve_forever to return
ServerShutdown ==
  /\ db.shutdown = "stopped_set"
  /\ db' = [db EXCEPT !.shutdown_request = (db.run \notin {"died", "returned"}),
                      !.shutdown = "done"]
  /\ UNCHANGED ProgramVars

\* the server after self.server.file_paths = file_paths: the request being
\* handled has one more mapping in effect during it
AfterSet(file_paths) ==
  [db EXCEPT !.file_paths = file_paths, !.sets = @ + 1,
             !.handler.mappings = IF InRequest THEN @ \cup {file_paths} ELSE @]

\* line 134: self.server.file_paths = {file_url: file_path}
SetFileToServe ==
  /\ db.sets < MaxSets
  /\ \E file_url \in Urls, file_path \in FilePaths :
       db' = AfterSet([u \in {file_url} |-> file_path])
  /\ UNCHANGED ProgramVars

\* line 143: self.server.file_paths = file_url_file_path_dict
SetFilesToServe ==
  /\ db.sets < MaxSets
  /\ \E file_url_file_path_dict \in FileUrlFilePathDicts :
       db' = AfterSet(file_url_file_path_dict)
  /\ UNCHANGED ProgramVars

\* a request arrives while serve_forever runs: the handler calls
\* translate_path(path)
HandleRequest ==
  /\ db.run = "serve_forever" /\ ~InRequest
  /\ db.requests < MaxRequests
  /\ \E path \in Urls, authorization \in {"none", "wrong", "right"} :
       \* the header is read by a server that asks for it only
       /\ ~db.authorization => authorization = "none"
       /\ db' = [db EXCEPT !.requests = @ + 1,
                        !.handler = [NoRequest EXCEPT
                                       !.pc = "translate_path", !.path = path,
                                       !.authorization = authorization,
                                       !.mappings = {db.file_paths}]]
  /\ UNCHANGED ProgramVars

\* lines 160-175: the authorization header is checked when the server asks
\* for it; a failed one is answered 401 with two lines written to wfile
TranslatePathAuthorization ==
  /\ db.handler.pc = "translate_path"
  /\ db' = IF ~db.authorization \/ db.handler.authorization = "right"
           THEN [db EXCEPT !.handler.pc = "test"]
           ELSE IF WfileWriteStr(db.python) = "written"
           THEN [db EXCEPT !.handler.pc = "done", !.handler.result = ""]
           ELSE [db EXCEPT !.handler.pc = "raised",
                           !.handler.exc = WfileWriteStr(db.python)]
  /\ UNCHANGED ProgramVars

\* line 176, the condition: path in self.server.file_paths
TranslatePathTest ==
  /\ db.handler.pc = "test"
  /\ db' = IF db.handler.path \in DOMAIN db.file_paths
           THEN [db EXCEPT !.handler.pc = "lookup", !.handler.tested = TRUE]
           ELSE [db EXCEPT !.handler.pc = "done", !.handler.tested = TRUE,
                           !.handler.result = ""]
  /\ UNCHANGED ProgramVars

\* line 176, the value: self.server.file_paths[path], read once more
TranslatePathLookup ==
  /\ db.handler.pc = "lookup"
  /\ db' = IF db.handler.path \in DOMAIN db.file_paths
           THEN [db EXCEPT !.handler.pc = "done",
                           !.handler.result = db.file_paths[db.handler.path]]
           ELSE [db EXCEPT !.handler.pc = "raised", !.handler.exc = "KeyError"]
  /\ UNCHANGED ProgramVars

-----------------------------------------------------------------------------
(* SyntheticMoveList called on its own: SpecSynth *)

SynthInit ==
  /\ ml_list \in RunCollections(MaxRuns)
  /\ num \in 0 .. Len(ml_list)
  /\ chan_idx \in Channels
  /\ method = EMPTYSTR
  /\ ref_ml = NotCalled
  /\ heap = <<>> /\ ext = NoExt /\ dpa = NoDpa /\ sc = NoSc /\ sim = NoSim
  /\ np_random = NewProcess(1) /\ db = NoDb

\* one call ref_ml = SyntheticMoveList(ml_list, method, num, chan_idx)
CallSyntheticMoveList ==
  /\ ref_ml = NotCalled
  /\ \E m \in Methods :
       /\ method' = m
       /\ ref_ml' = SyntheticMoveList(ml_list, m, num, chan_idx)
  /\ UNCHANGED <<ml_list, num, chan_idx, heap, ext, dpa, sc, sim, np_random, db>>

SynthNext == CallSyntheticMoveList

SpecSynth == SynthInit /\ [][SynthNext]_vars

\* what the formulas below read off a state of SpecSynth
Called == ref_ml.kind # "none"
Window == IF num = 0 THEN Len(ml_list) ELSE num
\* the size of run i (a Python index) on the channel
SizeOfRun(i) == Cardinality(ml_list[i + 1][chan_idx + 1])
SizeOfResult(r) == Cardinality(r.value[chan_idx + 1])

\* C1: on a non-empty collection 'min' returns the first run, among the first
\* w, of the smallest size in the window, and 'max' the first of the largest
\* size; the run is returned as it is.
C1_MinMaxFirstExtremal ==
  (Called /\ Len(ml_list) > 0 /\ method \in {MIN, MAX}) =>
    /\ ref_ml.kind = "run"
    /\ ref_ml.idx \in 0 .. (Window - 1)
    /\ ref_ml.value = ml_list[ref_ml.idx + 1]
    /\ method = MIN =>
         /\ \A j \in 0 .. (Window - 1) : SizeOfRun(ref_ml.idx) <= SizeOfRun(j)
         /\ \A j \in 0 .. (ref_ml.idx - 1) : SizeOfRun(ref_ml.idx) < SizeOfRun(j)
    /\ method = MAX =>
         /\ \A j \in 0 .. (Window - 1) : SizeOfRun(ref_ml.idx) >= SizeOfRun(j)
         /\ \A j \in 0 .. (ref_ml.idx - 1) : SizeOfRun(ref_ml.idx) > SizeOfRun(j)

\* 'max' over a window of 2 out of 3 runs with a tie: the earlier of the two
\* largest runs of the window is returned, and a larger run lies outside it
C1_Witness ==
  /\ Called /\ method = MAX /\ Len(ml_list) = 3 /\ num = 2
  /\ SizeOfRun(0) = 1 /\ SizeOfRun(1) = 1 /\ SizeOfRun(2) = 2
  /\ ml_list[1] # ml_list[2]
  /\ ref_ml.idx = 0

\* C2: on a non-empty collection a method starting with 'med' returns a run
\* whose size is one of the window's sizes and a median of them (at most half
\* of the window is smaller, at most half is larger); the run is the first of
\* the whole collection with that size, and it lies in the window.
C2_MedianNearestRank ==
  (Called /\ Len(ml_list) > 0 /\ method \in {MED, MEDIAN}) =>
    /\ ref_ml.kind = "run"
    /\ ref_ml.idx \in 0 .. (Window - 1)
    /\ ref_ml.value = ml_list[ref_ml.idx + 1]
    /\ \A j \in 0 .. (ref_ml.idx - 1) : SizeOfRun(j) # SizeOfRun(ref_ml.idx)
    /\ 2 * Cardinality({j \in 0 .. (Window - 1) : SizeOfRun(j) < SizeOfRun(ref_ml.idx)})
         <= Window
    /\ 2 * Cardinality({j \in 0 .. (Window - 1) : SizeOfRun(j) > SizeOfRun(ref_ml.idx)})
         <= Window

\* sizes 2, 0, 1 over the whole collection: the median size 1 is run 2
C2_Witness ==
  /\ Called /\ method = MEDIAN /\ Len(ml_list) = 3 /\ num = 0 /\ chan_idx = 0
  /\ SizeOfRun(0) = 2 /\ SizeOfRun(1) = 0 /\ SizeOfRun(2) = 1
  /\ ref_ml.idx = 2

\* the intersection method's answer on the channel: a subset of every run of
\* the window, holding every grant common to them
InterAnswerOk ==
  /\ ref_ml.kind = "new"
  /\ \A j \in 0 .. (Window - 1) : ref_ml.value[chan_idx + 1] \subseteq ml_list[j + 1][chan_idx + 1]
  /\ \A g \in Grants :
       (\A j \in 0 .. (Window - 1) : g \in ml_list[j + 1][chan_idx + 1])
         => g \in ref_ml.value[chan_idx + 1]

\* C3 as stated: for every collection, the empty one included
C3_Original ==
  (Called /\ method \in {INTER, INTERSECTION}) => InterAnswerOk

\* C3 amended: for every non-empty collection the intersection method returns
\* a set that is a subset of the channel's set in each of the first w runs and
\* contains every grant common to them all.
C3_IntersectionSubset ==
  (Called /\ Len(ml_list) > 0 /\ method \in {INTER, INTERSECTION}) => InterAnswerOk

\* three different sets with one grant in common
C3_Witness ==
  /\ Called /\ method = INTER /\ Len(ml_list) = 3 /\ num = 0 /\ chan_idx = 0
  /\ ml_list[1][1] = {"g1", "g2"} /\ ml_list[2][1] = {"g1"} /\ ml_list[3][1] = {"g1", "g2"}
  /\ ref_ml.value[1] = {"g1"}

\* C9: on a non-empty collection and one window, size under 'min' <= size
\* under 'med' <= size under 'max'.
C9_RankOrdering ==
  (Called /\ Len(ml_list) > 0 /\ method \in {MIN, MED, MAX}) =>
    LET Sz(m) == IF m = method THEN SizeOfResult(ref_ml)
                 ELSE SizeOfResult(SyntheticMoveList(ml_list, m, num, chan_idx))
    IN  Sz(MIN) <= Sz(MED) /\ Sz(MED) <= Sz(MAX)

\* the three sizes differ: min 0 < median 1 < max 2
C9_Witness ==
  /\ Called /\ method = MED /\ Len(ml_list) = 3 /\ chan_idx = 0 /\ num = 0
  /\ SizeOfResult(ref_ml) = 1
  /\ SizeOfResult(SyntheticMoveList(ml_list, MIN, num, chan_idx)) = 0
  /\ SizeOfResult(SyntheticMoveList(ml_list, MAX, num, chan_idx)) = 2

-----------------------------------------------------------------------------
(* ScatterAnalyze called on its own: SpecScatter *)

\* reference levels, deltas and thresholds drawn (tenths of a dB)
SampleRefLevels == {0 - 1000, 0 - 930}
SampleDiffLevels == {0 - 31, 0, 20}
Thresholds == {0 - 960, 0 - 1000}

ScatterInit ==
  /\ \E n \in 0 .. MaxSamples :
       \E rl \in [1 .. n -> SampleRefLevels], dl \in [1 .. n -> SampleDiffLevels],
          th \in Thresholds :
         sc = [pc |-> "call", ref_levels |-> rl, diff_levels |-> dl,
               threshold_db |-> th, out |-> NoStatistics]
  /\ ml_list = <<>> /\ method = EMPTYSTR /\ num = 0 /\ chan_idx = 0
  /\ ref_ml = NotCalled
  /\ heap = <<>> /\ ext = NoExt /\ dpa = NoDpa /\ sim = NoSim
  /\ np_random = NewProcess(1) /\ db = NoDb

\* one call ScatterAnalyze(ref_levels, diff_levels, threshold_db, tag)
CallScatterAnalyze ==
  /\ sc.pc = "call"
  /\ sc' = [sc EXCEPT !.pc = "done",
                       !.out = ScatterAnalyze(sc.ref_levels, sc.diff_levels,
                                              sc.threshold_db)]
  /\ UNCHANGED <<ml_list, method, num, chan_idx, ref_ml, heap, ext, dpa, sim,
                 np_random, db>>

ScatterNext == CallScatterAnalyze

SpecScatter == ScatterInit /\ [][ScatterNext]_vars

\* fixed margins m, in tenths of a dB above the threshold
MarginGrid == (0 - 100) .. 100

\* every sample's linear delta is <= toLinear(threshold + m) - toLinear(threshold)
Absorbs(m) ==
  \A i \in 1 .. Len(sc.ref_levels) :
    DiffMw(sc.ref_levels, sc.diff_levels)[i]
      <= Db2Lin(sc.threshold_db + m) - Db2Lin(sc.threshold_db)

\* the reported margin is a level, no smaller margin absorbs every sample and
\* every larger one does (the least absorbing margin, to the tenth of a dB
\* that Lin2Db resolves)
LeastAbsorbingMargin ==
  /\ sc.out.statistics
  /\ sc.out.max_margin_db.kind = "num"
  /\ \A m \in MarginGrid :
       /\ m < sc.out.max_margin_db.db => ~Absorbs(m)
       /\ m > sc.out.max_margin_db.db => Absorbs(m)

\* threshold -96 dBm, one sample at -100 dBm with delta +2 dB
Scenario2 ==
  /\ sc.threshold_db = 0 - 960
  /\ sc.ref_levels = <<0 - 1000>> /\ sc.diff_levels = <<20>>

\* C10 as stated: for every non-empty sample list
C10_Original ==
  (sc.pc = "done" /\ sc.ref_levels # <<>>) => LeastAbsorbingMargin

\* C10 amended: for a non-empty sample list whose largest linear delta is
\* above -toLinear(threshold), the reported maximum margin is the least fixed
\* margin that absorbs every sample; in scenario 2 it lies strictly between 0
\* and 2 dB.
C10_MaxMarginLeast ==
  (sc.pc = "done" /\ sc.ref_levels # <<>>) =>
    /\ (NpMax(DiffMw(sc.ref_levels, sc.diff_levels)) + Db2Lin(sc.threshold_db) > 0)
         => LeastAbsorbingMargin
    /\ Scenario2 => (sc.out.max_margin_db.kind = "num"
                      /\ sc.out.max_margin_db.db > 0 /\ sc.out.max_margin_db.db < 20)

\* two samples, the larger delta decides: +2 dB on -93 dBm
C10_Witness ==
  /\ sc.pc = "done" /\ sc.threshold_db = 0 - 960
  /\ sc.ref_levels = <<0 - 1000, 0 - 930>> /\ sc.diff_levels = <<20, 20>>
  /\ sc.out.max_margin_db.kind = "num" /\ sc.out.max_margin_db.db > 20

\* scenario 2 itself
C10_WitnessScenario2 == sc.pc = "done" /\ Scenario2 /\ sc.out.max_margin_db = Num(9)

-----------------------------------------------------------------------------
(* ExtensiveInterferenceCheck called on its own: SpecExt *)

\* the move lists the reference collection is drawn from
RunPool ==
  {<<{"g1", "g2"}, {"g3"}>>, <<{"g1"}, {}>>, <<{}, {"g3"}>>}

ExtMethods == {MAX, MIN, MED, INTER, AVG}

ExtInit ==
  /\ \E len \in 0 .. MaxRefRuns :
       /\ heap \in [1 .. len -> RunPool]
       /\ \E n \in 0 .. MaxRefRuns, m \in ExtMethods, c \in Channels :
            ext = ExtFrame([i \in 1 .. len |-> i], n, m, c)
  /\ dpa = [NoDpa EXCEPT !.may_report = CheckOutcomes]
  /\ ml_list = <<>> /\ method = EMPTYSTR /\ num = 0 /\ chan_idx = 0
  /\ ref_ml = NotCalled
  /\ sc = NoSc /\ sim = NoSim /\ np_random = NewProcess(1) /\ db = NoDb

ExtNext ==
  \/ ExtStart
  \/ ExtSynthesize
  \/ ExtCheckInterference
  \/ ExtReport
  \/ ExtScatterAndReturn

SpecExt == ExtInit /\ [][ExtNext]_vars

\* the number of checks the claims plan: L - max(w, 1) + 1
PlannedChecks == Len(ext.ref_move_lists) - Max2(ext.ref_ml_num, 1) + 1

\* C4 as stated: an unrecognized method makes the synthesis fail with
\* ValueError at once, no move list being assigned and no check invoked.
C4_UnknownMethodValueError ==
  (ext.ref_ml_method \in UnknownMethods /\ ext.num_check > 0
     /\ ext.pc \notin {"idle", "start", "synth"}) =>
    /\ ext.pc = "raised" /\ ext.raised_at = "SyntheticMoveList"
    /\ ext.exc = "ValueError"
    /\ dpa.move_lists = 0 /\ ext.n_assign = 0
    /\ dpa.check_log = <<>> /\ ext.n_check = 0

\* C5: with L >= max(w, 1) reference runs the call makes L - max(w, 1) + 1
\* iterations; in each, dpa.move_lists is assigned once and then
\* CheckInterference is invoked once; the printed number of checks is that
\* count.  No recognized statistical method raises on the way.
C5_CheckCount ==
  (ext.pc # "idle" /\ Len(ext.ref_move_lists) >= Max2(ext.ref_ml_num, 1)) =>
    /\ ext.n_check = ext.k
    /\ ext.n_assign = ext.k + (IF ext.pc = "check" THEN 1 ELSE 0)
    /\ Len(dpa.check_log) = ext.n_check
    /\ ext.n_check <= PlannedChecks
    /\ ext.pc \in {"report", "scatter", "done"} => ext.n_check = PlannedChecks
    /\ ext.pc = "done" => (ext.printed /\ ext.printed_check = PlannedChecks)
    /\ ext.ref_ml_method \in {MAX, MIN, MED, INTER} => ext.pc # "raised"

\* 3 runs and a window of 2: 2 checks
C5_Witness ==
  /\ ext.pc = "done" /\ Len(ext.ref_move_lists) = 3 /\ ext.ref_ml_num = 2
  /\ ext.n_assign = 2 /\ ext.n_check = 2 /\ ext.printed_check = 2

\* C6 as stated: on an empty reference collection the call returns, having
\* made no check, printed zero checks and collected no sample.
C6_EmptyCollectionReturns ==
  (Len(ext.ref_move_lists) = 0 /\ ext.pc \in {"raised", "done"}) =>
    /\ ext.pc = "done" /\ ext.exc = "none"
    /\ ext.printed /\ ext.printed_check = 0
    /\ dpa.check_log = <<>>
    /\ ext.ref_levels = <<>> /\ ext.diff_levels = <<>>

\* C7: a check reporting success = false is counted, nothing more: the
\* success count is the number of checks that reported success, it stays
\* within 0 .. number of checks made, the loop goes on to the planned number
\* of checks, and nothing is raised by a check.
C7_FailuresCounted ==
  (ext.pc # "idle") =>
    /\ ext.num_success =
         Cardinality({i \in 1 .. Len(dpa.check_log) : dpa.check_log[i].success})
    /\ 0 <= ext.num_success /\ ext.num_success <= ext.n_check
    /\ ext.pc \in {"report", "scatter", "done"} => ext.n_check = Max2(ext.num_check, 0)
    /\ ext.pc = "raised" => ext.raised_at \in {"SyntheticMoveList", "report"}
    /\ ext.pc = "done" => ext.printed_success = ext.num_success

\* a failed check, then a successful one, then another failed one
C7_Witness ==
  /\ ext.pc = "done" /\ Len(dpa.check_log) = 3
  /\ ~dpa.check_log[1].success /\ dpa.check_log[2].success /\ ~dpa.check_log[3].success
  /\ ext.num_success = 1 /\ ext.printed_check = 3

-----------------------------------------------------------------------------
(* The program run from its options: Spec *)

Init ==
  /\ \E o \in Options, inplace \in BOOLEAN, f \in SimulateFiles \cup AnalyzeFiles :
       /\ o.log_file = f.log_file /\ o.config_file = f.config_file
       \* an option the mode does not read is left at one value
       /\ AnalyzeChosen(o) => ~o.dpa_builder_uut
       \* the cache is asked for with the default --uut_ml_num only
       /\ o.cache_file => o.uut_ml_num = 0
       \* the large numbers are for the analysis that generates no run
       /\ (o.num_ml > MaxNumMl \/ o.ref_ml_num > MaxNumMl) =>
            (AnalyzeChosen(o) /\ ~o.do_extensive /\ f.log = LogWithPeers)
       /\ sim = SimFrame(o, inplace, f.config_has_grants, f.log)
  /\ \E out \in ProgramOutcomes : dpa = [NoDpa EXCEPT !.may_report = {out}]
  /\ heap = <<>> /\ ext = NoExt
  /\ ml_list = <<>> /\ method = EMPTYSTR /\ num = 0 /\ chan_idx = 0
  /\ ref_ml = NotCalled /\ sc = NoSc /\ np_random = NewProcess(1) /\ db = NoDb

Next ==
  \/ Main
  \/ SimSetup
  \/ SimGenerate
  \/ SimBuildUut
  \/ SimGenerateUut
  \/ SimSliceRef
  \/ SimSynthRef
  \/ SimSynthUut
  \/ SimBasicCheck
  \/ SimCallExtensive
  \/ AnReadLog
  \/ AnComputeMoveLists
  \/ AnPlotLists
  \/ AnSetup
  \/ AnRetest
  \/ AnGenerate
  \/ AnBuildUut
  \/ AnCheckReal
  \/ AnCheckGood
  \/ AnPlotCdf
  \/ ExtensiveReturns
  \/ ExtStart
  \/ ExtSynthesize
  \/ ExtCheckInterference
  \/ ExtReport
  \/ ExtScatterAndReturn

Spec == Init /\ [][Next]_vars


\* the list object of every appended run holds what it held when appended
AppendedRunsHold ==
  \A i \in 1 .. Len(sim.appended) :
    heap[sim.appended[i].id] = sim.appended[i].value

\* a generation step, a SyntheticMoveList call or an iteration of
\* ExtensiveInterferenceCheck
GeneratesOrSynthesizes ==
  \/ SimGenerate \/ SimGenerateUut \/ AnGenerate
  \/ SimSynthRef \/ SimSynthUut \/ AnCheckGood
  \/ ExtSynthesize \/ ExtCheckInterference

\* the step leaves the runs the collections held where they were
CollectionsKept ==
  /\ Len(sim.ref_move_list_runs') >= Len(sim.ref_move_list_runs)
  /\ Prefix(sim.ref_move_list_runs', Len(sim.ref_move_list_runs))
       = sim.ref_move_list_runs
  /\ Len(sim.uut_move_list_runs') >= Len(sim.uut_move_list_runs)
  /\ Prefix(sim.uut_move_list_runs', Len(sim.uut_move_list_runs))
       = sim.uut_move_list_runs
  /\ ext.pc \in {"synth", "check"} => ext.ref_move_lists' = ext.ref_move_lists

\* C8: a run appended to a run collection is never changed afterwards: at
\* every step of the program (every SyntheticMoveList call, every iteration
\* of ExtensiveInterferenceCheck, every later ComputeMoveLists) the list
\* object of every appended run holds the per-channel sets it held when it
\* was appended, and these steps leave the length and the order of the
\* collections as they were
C8_AppendedRunsUnchanged ==
  /\ []AppendedRunsHold
  /\ [][GeneratesOrSynthesizes => CollectionsKept]_vars

\* two runs of different content appended, then a later ComputeMoveLists that
\* refills its list in place, a SyntheticMoveList call that handed one of the
\* runs to the Dpa, and an ExtensiveInterferenceCheck gone through
C8_Witness ==
  /\ sim.pc = "end"
  /\ sim.compute_inplace
  /\ ext.pc = "done" /\ ext.n_check >= 2
  /\ Len(sim.appended) >= 2
  /\ \E i, j \in 1 .. Len(sim.appended) :
       /\ i < j
       /\ sim.appended[i].value # sim.appended[j].value
       /\ heap[sim.appended[i].id] = sim.appended[i].value
       /\ dpa.move_lists = sim.appended[i].id

-----------------------------------------------------------------------------
(* The CDF figures *)

\* every plotted margin of the figure sits at the rank of its own place in
\* the sorted array of the n samples it was taken from
OwnRanks(plot, n) ==
  \A p \in 1 .. Len(plot.x) :
    /\ Len(plot.y) = Len(plot.x)
    /\ plot.y[p].n = n
    /\ plot.np_sort[plot.y[p].i + 1] = plot.x[p]

\* C11: in the CDF figure of ScatterAnalyze every plotted margin is paired
\* with the complementary rank 1 - i/N of its own position i in the sorted
\* array of the N margins; the entries dropped at the floor take no rank away
\* from a retained entry
C11_PlottedAtOwnRank ==
  (sc.pc = "done" /\ sc.out.statistics)
    => OwnRanks(sc.out.cdf, Len(sc.ref_levels))

-----------------------------------------------------------------------------
(* An extensive check without samples *)

\* the loop of ExtensiveInterferenceCheck is over, it made a check and no
\* check gave a sample
CheckedWithoutSamples ==
  /\ ext.pc \in {"report", "scatter", "done"}
  /\ ext.n_check >= 1
  /\ ext.ref_levels = <<>>

\* C12: an extensive check that made at least one check and collected no
\* sample raises nothing: it gives the 'check your setup' warning,
\* ScatterAnalyze produces no statistics, the arrays returned are empty and
\* the caller goes on with its next step (the CDF figure of the analysis
\* included)
C12_NoSamplesNoFailure ==
  /\ [](CheckedWithoutSamples =>
          /\ ext.exc = "none"
          /\ ext.pc = "done" =>
               /\ ext.warned
               /\ ~ext.scatter.statistics
               /\ ext.diff_levels = <<>>)
  /\ [][(CheckedWithoutSamples /\ (ExtReport \/ ExtScatterAndReturn))
          => ext.pc' \in {"scatter", "done"}]_vars
  /\ [][(CheckedWithoutSamples /\ ExtensiveReturns) =>
          /\ sim.pc' \in {"end", "an_gen", "an_good_synth", "an_cdf"}
          /\ sim.exc' = "none"
          /\ sim.phase = "an_real" =>
               (sim.real_levels' = <<>> /\ sim.real_diffs' = <<>>)]_vars
  /\ [][(AnPlotCdf /\ sim.real_levels = <<>>) =>
          (sim.pc' = "end" /\ sim.exc' = "none" /\ ~sim.real_plot.plotted')]_vars

\* the analysis at its end after three extensive checks of ten, two and two
\* checks that gave no sample
C12_Witness ==
  /\ sim.pc = "end" /\ sim.mode = "analyze" /\ sim.phase = "an_good"
  /\ CheckedWithoutSamples /\ ext.pc = "done" /\ ext.n_check = 2
  /\ ext.warned
  /\ sim.real_levels = <<>> /\ sim.good_levels = <<>>
  /\ Len(dpa.check_log) = MinRetestChecks + 4

-----------------------------------------------------------------------------
(* The log analysis: the lists of the log *)

\* the analysis has read its files
FilesRead == sim.mode = "analyze" /\ sim.read # <<>>

\* C13: when the log has neighbor-list entries, the reference move list used
\* for the analyzed channel (drawn on the map, and active in the Dpa at every
\* check of the first analysis) is the neighbor list of the channel minus the
\* reference keep list of the log: no grant of the keep list is in it, and
\* every grant of the neighbor list that is not in the keep list is
C13_RefMoveListIsDifference ==
  (FilesRead /\ sim.ref_nbor_list # {}) =>
    LET nbor_list == GetNeighborList(sim.chan_idx)
        IsDifference(ml) ==
          /\ ml \cap sim.ref_keep_list = {}
          /\ \A g \in nbor_list : g \notin sim.ref_keep_list => g \in ml
          /\ ml \subseteq nbor_list
    IN  /\ sim.ref_move_list_other.bound => IsDifference(sim.ref_move_list_other.value)
        /\ sim.phase = "an_retest" =>
             \A i \in 1 .. Len(dpa.check_log) : IsDifference(dpa.check_log[i].move_list)

\* the first analysis done on a log whose keep list holds one of the two
\* neighbors of the channel and a grant of another channel
C13_Witness ==
  /\ FilesRead /\ sim.log = LogWithPeersKeepOthers
  /\ sim.phase = "an_retest" /\ ext.pc = "done"
  /\ Len(dpa.check_log) = MinRetestChecks
  /\ \A i \in 1 .. Len(dpa.check_log) : dpa.check_log[i].move_list = {"g2"}
  /\ sim.ref_move_list_other = Bound({"g2"})

\* C14: when the log has no neighbor-list entry but a non-empty UUT keep list
\* and the config gives grants, the analysis does not fail: the no-peer
\* indication is given, the reference move list is never computed, the
\* fixed-reference retest is skipped and no error is raised
C14_NoPeersDoesNotFail ==
  (FilesRead /\ sim.log.ref_nbor_list = {} /\ sim.log.uut_keep_list # {}
             /\ sim.config_file # EMPTYSTR /\ sim.config_has_grants) =>
    /\ sim.no_peers
    /\ ~sim.ref_move_list_other.bound
    /\ sim.phase # "an_retest"
    /\ sim.pc # "raised" /\ sim.exc = "none"

\* C15: the analysis fails with 'No grants specified' exactly when no grant is
\* available from either source: the config gives none and the neighbor list
\* of the log is empty
C15_NoGrantsIffNoSource ==
  FilesRead =>
    ((sim.exc = "ValueError")
       <=> (~(sim.config_file # EMPTYSTR /\ sim.config_has_grants)
              /\ sim.log.ref_nbor_list = {}))

-----------------------------------------------------------------------------
(* The two modes *)

\* a step of DpaSimulate / of DpaAnalyzeLogs
SimulateStep ==
  \/ SimSetup \/ SimGenerate \/ SimBuildUut \/ SimGenerateUut \/ SimSliceRef
  \/ SimSynthRef \/ SimSynthUut \/ SimBasicCheck \/ SimCallExtensive
AnalyzeStep ==
  \/ AnReadLog \/ AnComputeMoveLists \/ AnPlotLists \/ AnSetup \/ AnRetest
  \/ AnGenerate \/ AnBuildUut \/ AnCheckReal \/ AnCheckGood \/ AnPlotCdf

\* nothing read, generated or checked yet
NothingDone ==
  /\ sim.read = <<>> /\ heap = <<>> /\ sim.appended = <<>>
  /\ dpa.check_log = <<>> /\ dpa.move_lists = 0 /\ ext.pc = "idle"

-----------------------------------------------------------------------------
(* The extensive check of the simulation *)

\* the list objects of the first n reference runs generated
GeneratedRefRuns(n) ==
  LET refs == SelectSeq(sim.appended, LAMBDA a : a.coll = "ref")
  IN  {refs[i].id : i \in 1 .. Min2(n, Len(refs))}

\* the simulation is over and it made its extensive check
ExtensiveSimulationDone ==
  /\ sim.mode = "simulate" /\ sim.options.do_extensive
  /\ sim.pc = "end" /\ ext.pc = "done"

\* C17: in the simulation with the extensive toggle and num_ml = N, each of
\* the N reference runs generated lies in the synthesis window of at least
\* one check of ExtensiveInterferenceCheck, whatever ref_ml_num is
C17_EveryRunChecked ==
  ExtensiveSimulationDone =>
    \A id \in GeneratedRefRuns(sim.options.num_ml) :
      \E k \in 1 .. Len(ext.windows) : id \in ext.windows[k]

-----------------------------------------------------------------------------
(* The first analysis of the log: the fixed reference move list *)

\* the first analysis (the re-test of the logged reference move list) is
\* running or just over
InRetest == sim.mode = "analyze" /\ sim.phase = "an_retest" /\ sim.pc = "in_ext"

\* C18: with peer data in the log the first analysis makes exactly
\* max(10, num_base_ml // 2) checks, num_base_ml = max(ref_ml_num or num_ml,
\* num_ml); at every one of them the move list of the Dpa on the analyzed
\* channel is the neighbor list minus the logged reference keep list, and
\* between them no list is created or changed
C18_FixedReferenceRetest ==
  /\ [](InRetest =>
          LET o == sim.options
              num_ref_ml == IF o.ref_ml_num # 0 THEN o.ref_ml_num ELSE o.num_ml
              num_base_ml == IF num_ref_ml > o.num_ml THEN num_ref_ml ELSE o.num_ml
              half == num_base_ml \div 2
              planned == IF half > 10 THEN half ELSE 10
          IN  /\ sim.ref_nbor_list # {}
              /\ Len(dpa.check_log) <= planned
              /\ ext.pc = "done" => Len(dpa.check_log) = planned
              /\ \A i \in 1 .. Len(dpa.check_log) :
                   dpa.check_log[i].move_list
                     = GetNeighborList(sim.chan_idx) \ sim.ref_keep_list)
  /\ [][(InRetest /\ sim.pc' = "in_ext") => heap' = heap]_vars
  /\ [][(InRetest /\ ext.pc = "check" /\ ext.pc' = "synth") =>
          dpa.move_lists' = dpa.move_lists]_vars
  /\ [][(InRetest /\ ext.pc = "synth" /\ ext.k > 0) =>
          dpa.move_lists' = dpa.move_lists]_vars

\* the first analysis over after fourteen checks (ref_ml_num = 28, num_ml = 1)
C18_Witness ==
  /\ InRetest /\ ext.pc = "done"
  /\ sim.options.ref_ml_num = LargeNumMl + 4 /\ sim.options.num_ml = 1
  /\ Len(dpa.check_log) = (LargeNumMl + 4) \div 2
  /\ Len(dpa.check_log) > MinRetestChecks
  /\ dpa.check_log[Len(dpa.check_log)].move_list = {"g1"}

-----------------------------------------------------------------------------
(* The order of the analyses of the log *)

\* the analysis is past its first analysis
RetestOver ==
  /\ sim.mode = "analyze"
  /\ \/ sim.phase = "an_retest" /\ sim.pc = "in_ext" /\ ext.pc = "done"
     \/ sim.phase = "an_retest" /\ sim.pc \notin {"in_ext", "raised"}
     \/ sim.phase \in {"an_real", "an_good"}

\* C19: in the analysis the phases come in a fixed order behind the extensive
\* toggle.  Without it nothing happens after the retest of the fixed
\* reference: no ComputeMoveLists, no CheckInterference, no cache written.
\* With it every fresh reference run is generated after the retest and
\* before any check against these runs, and the check of the real UUT is
\* over before the check of the best-case UUT starts
C19_AnalysisPhasesInOrder ==
  /\ []((sim.mode = "analyze" /\ ~sim.options.do_extensive) =>
          /\ sim.appended = <<>> /\ ~sim.cache_written
          /\ sim.phase \in {"none", "an_retest"})
  /\ [][(RetestOver /\ ~sim.options.do_extensive) =>
          (heap' = heap /\ dpa' = dpa /\ sim.pc' = "end")]_vars
  /\ [][AnGenerate =>
          /\ sim.options.do_extensive
          /\ sim.phase = "an_retest" /\ ext.pc = "done"
          /\ Len(dpa.check_log) = MinRetestChecks]_vars
  /\ [][AnCheckReal =>
          /\ Len(sim.appended) = sim.num_base_ml
          /\ Len(dpa.check_log) = MinRetestChecks]_vars
  /\ [][(sim.phase \in {"an_real", "an_good"}) =>
          (Len(sim.appended') = Len(sim.appended)
             /\ sim.phase' \in {"an_real", "an_good"})]_vars
  /\ [][AnCheckGood =>
          /\ sim.phase = "an_real" /\ ext.pc = "done"
          /\ ext.n_check = ext.num_check]_vars
  /\ [][(sim.phase = "an_good") => sim.phase' = "an_good"]_vars

\* the analysis with the toggle at its end: ten checks of the fixed
\* reference, two runs generated, then the two checks against them
C19_Witness ==
  /\ sim.mode = "analyze" /\ sim.options.do_extensive /\ sim.pc = "end"
  /\ sim.phase = "an_good"
  /\ Len(sim.appended) = 2 /\ sim.options.ref_ml_num = 0
  /\ Len(dpa.check_log) = MinRetestChecks + 4
  /\ sim.cache_written

\* the analysis without the toggle at its end, right after the retest
C19_WitnessNoExtensive ==
  /\ sim.mode = "analyze" /\ ~sim.options.do_extensive /\ sim.pc = "end"
  /\ sim.phase = "an_retest" /\ Len(dpa.check_log) = MinRetestChecks
  /\ sim.options.cache_file /\ ~sim.cache_written

-----------------------------------------------------------------------------
(* The simulation executed twice with the same command line: SpecTwice *)

\* the run collections the execution has built
RunCollectionsBuilt ==
  [ref |-> Deref(sim.ref_move_list_runs),
   uut |-> Deref(sim.uut_move_list_runs),
   generated |-> [i \in 1 .. Len(sim.appended) |-> sim.appended[i].value]]

\* the program is executed once more with the same options and files, in a
\* new process, with the same external generator
ExecuteAgain ==
  /\ sim.pc \in {"end", "raised"}
  /\ sim.execution = 1
  /\ sim' = [SimFrame(sim.options, sim.compute_inplace, sim.config_has_grants,
                      sim.log)
               EXCEPT !.execution = 2, !.first = RunCollectionsBuilt]
  /\ heap' = <<>>
  /\ ext' = NoExt
  /\ dpa' = [NoDpa EXCEPT !.may_report = dpa.may_report]
  /\ np_random' = [NewProcess(2) EXCEPT !.generator = np_random.generator]
  /\ UNCHANGED CallsOnTheirOwn

TwiceInit ==
  /\ \E o \in Options, inplace \in BOOLEAN, f \in SimulateFiles :
       /\ o.log_file = f.log_file /\ o.config_file = f.config_file
       /\ ~o.do_extensive /\ ~o.cache_file
       /\ o.num_ml <= MaxNumMl /\ o.ref_ml_num <= MaxNumMl
       /\ sim = SimFrame(o, inplace, f.config_has_grants, f.log)
  /\ \E out \in ProgramOutcomes : dpa = [NoDpa EXCEPT !.may_report = {out}]
  /\ heap = <<>> /\ ext = NoExt
  /\ ml_list = <<>> /\ method = EMPTYSTR /\ num = 0 /\ chan_idx = 0
  /\ ref_ml = NotCalled /\ sc = NoSc /\ np_random = NewProcess(1) /\ db = NoDb

TwiceNext ==
  \/ Main
  \/ SimSetup
  \/ SimGenerate
  \/ SimBuildUut
  \/ SimGenerateUut
  \/ SimSliceRef
  \/ SimSynthRef
  \/ SimSynthUut
  \/ SimBasicCheck
  \/ ExecuteAgain

SpecTwice == TwiceInit /\ [][TwiceNext]_vars

\* C20: two executions of the simulation with the same seed, the same
\* configuration and an external generator that is the same function of the
\* random state build the same run collections: as many runs, with the same
\* per-channel sets, in the same order
C20_SameSeedSameRuns ==
  (sim.execution = 2 /\ sim.pc = "end") => RunCollectionsBuilt = sim.first

\* the second execution at its end, the UUT with its own generated runs, the
\* two reference runs different from each other
C20_Witness ==
  /\ sim.execution = 2 /\ sim.pc = "end"
  /\ sim.options.dpa_builder_uut
  /\ Len(sim.first.ref) = 2 /\ sim.first.ref[1] # sim.first.ref[2]
  /\ Len(sim.first.uut) = 2 /\ sim.first.uut # sim.first.ref
  /\ RunCollectionsBuilt = sim.first

-----------------------------------------------------------------------------
(* The sliding window of ExtensiveInterferenceCheck *)

\* the runs k, k+1, ..., k+size-1 of the reference collection (k from 0)
RunsFrom(k, size) ==
  Deref(SubSeq(ext.ref_move_lists, k + 1, Min2(k + size, Len(ext.ref_move_lists))))

\* the channel's set of the move list synthesized from those runs alone
SynthesisOfRunsFrom(k, size) ==
  SyntheticMoveList(RunsFrom(k, size), ext.ref_ml_method, size,
                    ext.chan_idx).value[ext.chan_idx + 1]

\* C21 as stated: for every position k and every synthesis window size (0
\* included) the reference move list the Dpa holds at position k is the
\* synthesis of exactly the runs k .. k+max(size, 1)-1 of the reference
\* collection: later runs have no influence on it.
C21_WindowOfConstantSize ==
  (ext.pc # "idle" /\ ext.ref_ml_method \in {MAX, MIN, MED, INTER}) =>
    \A i \in 1 .. Len(dpa.check_log) :
      dpa.check_log[i].move_list =
        SynthesisOfRunsFrom(i - 1, Max2(ext.ref_ml_num, 1))

-----------------------------------------------------------------------------
(* The basic check of the simulation: the two synthesized move lists *)

\* the list objects of the runs the reference Dpa generated, in order
GeneratedRunIds ==
  [i \in 1 .. Cardinality({j \in 1 .. Len(sim.appended) : sim.appended[j].coll = "ref"})
     |-> sim.appended[i].id]

\* the simulation with the UUT sharing the reference runs, smallest against
\* largest, once both move lists are synthesized
BothSynthesized ==
  /\ sim.mode = "simulate" /\ ~sim.options.dpa_builder_uut
  /\ sim.options.uut_ml_method = MIN /\ sim.options.ref_ml_method = MAX
  /\ sim.pc = "sim_basic"

\* C23: in the simulation without a separate UUT builder, UUT method 'min'
\* and reference method 'max', the synthesized UUT move list of the analyzed
\* channel is never larger than the synthesized reference move list, whatever
\* num_ml >= 1, ref_ml_num and uut_ml_num are: the UUT collection is the
\* first num_uut_ml generated runs, the reference collection the first
\* num_ref_ml, and neither synthesis fails.
C23_UutNotLargerThanRef ==
  /\ BothSynthesized =>
       /\ Cardinality(heap[sim.dpa_uut_move_lists][sim.chan_idx + 1])
            <= Cardinality(heap[dpa.move_lists][sim.chan_idx + 1])
       /\ sim.uut_move_list_runs = Prefix(GeneratedRunIds, sim.num_uut_ml)
       /\ sim.ref_move_list_runs = Prefix(GeneratedRunIds, sim.num_ref_ml)
       /\ Len(sim.uut_move_list_runs) = sim.num_uut_ml
       /\ Len(sim.ref_move_list_runs) = sim.num_ref_ml
  /\ (sim.mode = "simulate" /\ ~sim.options.dpa_builder_uut
        /\ sim.options.uut_ml_method = MIN /\ sim.options.ref_ml_method = MAX
        /\ ~sim.options.do_extensive) => sim.pc # "raised"

\* --num_ml 1 --ref_ml_num 1 --uut_ml_num 2: the UUT takes the smaller of two
\* runs, the reference the first run, which is the larger one
C23_Witness ==
  /\ BothSynthesized
  /\ sim.options.num_ml = 1 /\ sim.options.ref_ml_num = 1
  /\ sim.options.uut_ml_num = 2
  /\ Len(sim.uut_move_list_runs) = 2 /\ Len(sim.ref_move_list_runs) = 1
  /\ Cardinality(heap[sim.dpa_uut_move_lists][sim.chan_idx + 1])
       < Cardinality(heap[dpa.move_lists][sim.chan_idx + 1])

-----------------------------------------------------------------------------
(* The database server on its own: SpecDb *)

DbInit ==
  /\ \E python \in {2, 3}, authorization \in BOOLEAN :
       db = DatabaseServer(python, authorization)
  /\ ml_list = <<>> /\ method = EMPTYSTR /\ num = 0 /\ chan_idx = 0
  /\ ref_ml = NotCalled
  /\ heap = <<>> /\ ext = NoExt /\ dpa = NoDpa /\ sc = NoSc /\ sim = NoSim
  /\ np_random = NewProcess(1)

DbNext ==
  \/ Start
  \/ Run
  \/ RunWhile
  \/ ServeForeverRaises
  \/ RunExcept
  \/ ServeForeverReturns
  \/ Shutdown
  \/ ServerShutdown
  \/ SetFileToServe
  \/ SetFilesToServe
  \/ HandleRequest
  \/ TranslatePathAuthorization
  \/ TranslatePathTest
  \/ TranslatePathLookup

SpecDb == DbInit /\ [][DbNext]_vars

\* C22 as stated: whenever serve_forever raises while shutdown() has not been
\* called, the run loop handles it (logs the error) and calls serve_forever
\* again: the server thread never terminates before shutdown() has set the
\* stopped flag.
C22_ServerKeptAlive ==
  /\ db.run \in {"died", "returned"} => db.stopped_by_shutdown
  /\ (db.run \in {"while", "serve_forever"} /\ ~db.stopped_by_shutdown) =>
       db.logged_errors = db.serve_forever_raised

\* the request went past the authorization check and came to its end
ResolvedAtLine176 ==
  db.handler.tested /\ db.handler.pc \in {"done", "raised"}

\* the paths the url of the request has in the mappings in effect during it
PathsDuringRequest ==
  {m[db.handler.path] :
     m \in {mm \in db.handler.mappings : db.handler.path \in DOMAIN mm}}

\* C24 as stated: a request handled by translate_path while another thread
\* calls setFileToServe or setFilesToServe resolves to the path the url had
\* in the old mapping, the path it has in the new one, or the empty path; no
\* interleaving of the replacement with the membership test and the lookup
\* makes the handler raise an error.
C24_ResolvesToOldNewOrEmpty ==
  ResolvedAtLine176 =>
    /\ db.handler.pc = "done" /\ db.handler.exc = "none"
    /\ db.handler.result \in PathsDuringRequest \cup {""}

====
